---- MODULE Spec2Model ----
(***************************************************************************)
(* fx-tracker: the client-side resolution of a currency pair into a daily  *)
(* rate series (local cache -> backend store -> external provider), with   *)
(* inverse and cross rates derived from the series stored against the base *)
(* currency.                                                               *)
(*                                                                         *)
(* A call of getCurrencyPairData is a task that advances from one await to *)
(* the next; the code between two awaits runs without interruption, so one *)
(* action is the completion of one awaited operation followed by the code  *)
(* up to the next await.                                                   *)
(***************************************************************************)
EXTENDS Integers, Sequences, FiniteSets, TLC

\* ------------------------------------------------------------------ bounds

\* How many half-intervals (MinIntervalMs \div 2) the clock may advance.
MaxTicks == 1

\* How many half-intervals the clock may advance when the rate limiter is
\* exercised by itself.
MaxLimiterTicks == 4

\* The last calendar day reached when the rate limiter is exercised by itself.
MaxDay == 2

\* The count up to which recordApiCall is exercised by itself.
MaxCalls == 26

\* The provider may fail to send a series for the first MaxFaults currencies
\* of a batch.
MaxFaults == 1

\* The length of the longest series in the cache when it is uploaded.
LongRows == 501

\* ------------------------------------------------------- program constants

\* const BATCH_SIZE of syncAllCachedDataToBackend
BATCH_SIZE == 500

SAFE_LIMIT == 24

MinIntervalMs == 12000

BASE_CURRENCY == "USD"

CURRENCIES == <<"USD", "EUR", "GBP", "JPY", "CNY", "CHF", "AUD", "CAD", "NZD">>

FETCH_CURRENCIES == <<"EUR", "GBP", "JPY", "CNY", "CHF", "AUD", "CAD", "NZD">>

CurrencyCode == {CURRENCIES[i] : i \in DOMAIN CURRENCIES}

\* The currencies a caller selects in the runs that are explored.
CallCodes == {"USD", "EUR", "JPY"}

\* ---------------------------------------------------------------- numbers

\* A rate is a positive rational <<numerator, denominator>> in lowest terms.
RECURSIVE GCD(_, _)
GCD(a, b) == IF b = 0 THEN a ELSE GCD(b, a % b)

Norm(q) == LET g == GCD(q[1], q[2]) IN <<q[1] \div g, q[2] \div g>>

One == <<1, 1>>

\* x / y
Div(x, y) == Norm(<<x[1] * y[2], x[2] * y[1]>>)

\* parseFloat on the decimal strings the provider sends.
parseFloat(s) ==
    CASE s = "0.5" -> <<1, 2>>
      [] s = "1.0" -> <<1, 1>>
      [] s = "1.5" -> <<3, 2>>
      [] s = "2.0" -> <<2, 1>>
      [] s = "3.0" -> <<3, 1>>
      [] s = "4.0" -> <<4, 1>>

\* ----------------------------------------------------------------- series

\* null / a value, as the sequence of zero or one element.
Null == <<>>

Some(x) == <<x>>

DailyRate(date, open, high, low, close) ==
    [date |-> date, open |-> open, high |-> high, low |-> low, close |-> close]

\* Array.prototype.sort with (a, b) => a.date.localeCompare(b.date): a stable
\* ascending sort; dates are day numbers, ordered as their ISO strings are.
RECURSIVE InsertByDate(_, _)
InsertByDate(r, s) ==
    IF s = <<>> THEN <<r>>
    ELSE IF r.date < Head(s).date THEN <<r>> \o s
    ELSE <<Head(s)>> \o InsertByDate(r, Tail(s))

RECURSIVE SortByDate(_)
SortByDate(s) ==
    IF s = <<>> THEN <<>>
    ELSE InsertByDate(s[Len(s)], SortByDate(SubSeq(s, 1, Len(s) - 1)))

TimeSeriesKey == "Time Series FX (Daily)"

\* One entry of Object.entries(timeSeries): <<date, values>>.
ParseEntry(e) ==
    DailyRate(e[1],
              parseFloat(e[2]["1. open"]),
              parseFloat(e[2]["2. high"]),
              parseFloat(e[2]["3. low"]),
              parseFloat(e[2]["4. close"]))

\* parseRates without the sort: the records in the order of the payload.
parseRates_Unsorted(data) ==
    IF TimeSeriesKey \notin DOMAIN data THEN <<>>
    ELSE LET timeSeries == data[TimeSeriesKey]
         IN [i \in DOMAIN timeSeries |-> ParseEntry(timeSeries[i])]

parseRates(data) ==
    IF TimeSeriesKey \notin DOMAIN data THEN <<>>
    ELSE LET timeSeries == data[TimeSeriesKey]
         IN SortByDate([i \in DOMAIN timeSeries |-> ParseEntry(timeSeries[i])])

\* InvertRate without the swap of high and low.
InvertRate_NoSwap(rate) ==
    DailyRate(rate.date,
              Div(One, rate.open),
              Div(One, rate.high),
              Div(One, rate.low),
              Div(One, rate.close))

\* Case 1 of getCurrencyPairData: the inversion of one record.
InvertRate(rate) ==
    DailyRate(rate.date,
              Div(One, rate.open),
              Div(One, rate.low),
              Div(One, rate.high),
              Div(One, rate.close))

InvertSeries(directRate) ==
    [i \in DOMAIN directRate |-> InvertRate(directRate[i])]

\* calculateCrossRate: toUsdMap.get(date), the last record set for the date.
RECURSIVE MapGet(_, _)
MapGet(toToUsd, date) ==
    IF toToUsd[Len(toToUsd)].date = date THEN toToUsd[Len(toToUsd)]
    ELSE MapGet(SubSeq(toToUsd, 1, Len(toToUsd) - 1), date)

MapHas(toToUsd, date) == \E i \in DOMAIN toToUsd : toToUsd[i].date = date

\* CrossRecord dividing high by high and low by low.
CrossRecord_SameSide(fromRate, toRate) ==
    DailyRate(fromRate.date,
              Div(fromRate.open, toRate.open),
              Div(fromRate.high, toRate.high),
              Div(fromRate.low, toRate.low),
              Div(fromRate.close, toRate.close))

CrossRecord(fromRate, toRate) ==
    DailyRate(fromRate.date,
              Div(fromRate.open, toRate.open),
              Div(fromRate.high, toRate.low),
              Div(fromRate.low, toRate.high),
              Div(fromRate.close, toRate.close))

RECURSIVE calculateCrossRate(_, _)
calculateCrossRate(fromToUsd, toToUsd) ==
    IF fromToUsd = <<>> THEN <<>>
    ELSE LET fromRate == Head(fromToUsd)
             rest == calculateCrossRate(Tail(fromToUsd), toToUsd)
         IN IF MapHas(toToUsd, fromRate.date)
            THEN <<CrossRecord(fromRate, MapGet(toToUsd, fromRate.date))>> \o rest
            ELSE rest

\* ------------------------------------------------------------------ state

VARIABLES
    currencyData,     \* IndexedDB store 'currencyData': pair key -> null / record
    metadata,         \* IndexedDB store 'metadata': lastBatchUpdateDate, null / date
    stored,           \* localStorage item 'fx-api-rate-limit': null / RateLimitData
    exchange_rates,   \* the backend table: a set of rows, unique per (from, to, date)
    now,              \* Date.now(), in milliseconds
    today,            \* getTodayDate(), as a day number
    tasks,            \* the calls of getCurrencyPairData in flight
    lastReturned,     \* history: the call that returned last, when it was a call
                      \* for (X, base) without forceRefresh and nothing but a
                      \* repetition of it has happened since; else null
    job               \* the batch refresh or synchronisation in progress, or the
                      \* state of the hook that shows a pair

vars == <<currencyData, metadata, stored, exchange_rates, now, today, tasks, lastReturned,
          job>>

\* ------------------------------------------------------------ cacheManager

\* `${from}/${to}`
getPairKey(from, to) == <<from, to>>

PairKeys == {getPairKey(from, to) : from \in CurrencyCode, to \in CurrencyCode}

\* The CurrencyData read back, or null.
getCurrencyData(from, to) == currencyData[getPairKey(from, to)]

\* PutCurrencyData that stores nothing.
PutCurrencyData_NotStored(store, from, to, rates) == store

\* PutCurrencyData storing under the key of the reverse pair.
PutCurrencyData_ReverseKey(store, from, to, rates) ==
    [store EXCEPT ![getPairKey(to, from)] = Some([rates |-> rates])]

\* PutCurrencyData appending the series to the one already stored.
PutCurrencyData_Merging(store, from, to, rates) ==
    [store EXCEPT ![getPairKey(from, to)] =
        Some([rates |-> (IF @ = Null THEN <<>> ELSE @[1].rates) \o rates])]

\* db.put('currencyData', ...): the record stored under the key is replaced.
PutCurrencyData(store, from, to, rates) ==
    [store EXCEPT ![getPairKey(from, to)] = Some([rates |-> rates])]

hasCachedData(from, to) ==
    LET data == getCurrencyData(from, to)
    IN data # Null /\ Len(data[1].rates) > 0

\* areAllBasePairsUpdatedToday never finding the marker.
areAllBasePairsUpdatedToday_Never == FALSE

areAllBasePairsUpdatedToday == metadata = Some(today)

\* ------------------------------------------------------------- rateLimiter

FreshData == [date |-> today, calls |-> 0, lastCall |-> 0]

\* loadData without the test of the stored date.
loadData_NoDateTest == IF stored # Null THEN stored[1] ELSE FreshData

loadData ==
    IF stored # Null
    THEN IF stored[1].date # today THEN FreshData ELSE stored[1]
    ELSE FreshData

\* canMakeApiCall allowing a call at the ceiling itself.
canMakeApiCall_Inclusive == loadData.calls <= SAFE_LIMIT

canMakeApiCall == loadData.calls < SAFE_LIMIT

\* RecordedData counted from a record read anew instead of the stored one.
RecordedData_FromFresh == [FreshData EXCEPT !.calls = @ + 1, !.lastCall = now]

\* What recordApiCall saves.
RecordedData == [loadData EXCEPT !.calls = @ + 1, !.lastCall = now]

getTimeUntilNextCall ==
    LET elapsed == now - loadData.lastCall
    IN IF MinIntervalMs - elapsed > 0 THEN MinIntervalMs - elapsed ELSE 0

getRemainingCalls ==
    IF SAFE_LIMIT - loadData.calls > 0 THEN SAFE_LIMIT - loadData.calls ELSE 0

getCallsToday == loadData.calls

getLastCallTime == loadData.lastCall

canCallNow == now - loadData.lastCall >= MinIntervalMs

getRateLimitStatus ==
    LET data == loadData
        canCall == data.calls < SAFE_LIMIT
        nextCallIn == IF MinIntervalMs - (now - data.lastCall) > 0
                      THEN MinIntervalMs - (now - data.lastCall) ELSE 0
    IN [callsToday |-> data.calls,
        remainingCalls |-> IF SAFE_LIMIT - data.calls > 0 THEN SAFE_LIMIT - data.calls ELSE 0,
        canCall |-> canCall /\ nextCallIn = 0,
        lastCallTime |-> data.lastCall,
        nextCallIn |-> nextCallIn]

\* -------------------------------------------------------------- backendApi

ExchangeRateRecord(from, to, r) ==
    [from_currency |-> from, to_currency |-> to, date |-> r.date,
     open |-> r.open, high |-> r.high, low |-> r.low, close |-> r.close]

\* GET /rates: the rows of the pair, ordered by date ascending.
RECURSIVE OrderByDate(_)
OrderByDate(rows) ==
    IF rows = {} THEN <<>>
    ELSE LET first == CHOOSE r \in rows : \A q \in rows : r.date <= q.date
         IN <<first>> \o OrderByDate(rows \ {first})

SelectRates(from, to) ==
    OrderByDate({r \in exchange_rates : r.from_currency = from /\ r.to_currency = to})

\* What the request of fetchRatesFromBackend can come to: fetch is rejected,
\* the status is not OK, the body says success: false, or it carries the rows.
BackendOutcomes == {"rejected", "notOk", "unsuccessful", "data"}

\* fetchRatesFromBackend: result.data, or [] when the request fails in any way.
fetchRatesFromBackend(from, to, outcome) ==
    IF outcome = "data" THEN SelectRates(from, to) ELSE <<>>

\* The conversion of backend rows to DailyRate records.
ToDailyRates(backendRates) ==
    [i \in DOMAIN backendRates |->
        DailyRate(backendRates[i].date, backendRates[i].open, backendRates[i].high,
                  backendRates[i].low, backendRates[i].close)]

\* Upsert replacing the whole table by the records sent.
Upsert_Truncating(table, from, to, rates) ==
    {ExchangeRateRecord(from, to, rates[i]) : i \in DOMAIN rates}

\* POST /rates: upsert on (from_currency, to_currency, date).
Upsert(table, from, to, rates) ==
    LET records == {ExchangeRateRecord(from, to, rates[i]) : i \in DOMAIN rates}
        Conflicts(row) == \E n \in records :
                               /\ n.from_currency = row.from_currency
                               /\ n.to_currency = row.to_currency
                               /\ n.date = row.date
    IN {row \in table : ~Conflicts(row)} \cup records

\* ------------------------------------------------------ external provider

Entry(date, open, high, low, close) ==
    <<date, [k \in {"1. open", "2. high", "3. low", "4. close"} |->
                CASE k = "1. open" -> open
                  [] k = "2. high" -> high
                  [] k = "3. low" -> low
                  [] k = "4. close" -> close]>>

\* Payloads of the provider, newest day first as the provider sends them.
TimeSeriesOf(from) ==
    CASE from = "EUR" ->
            { <<Entry(3, "2.0", "4.0", "1.0", "3.0"),
                Entry(2, "1.5", "2.0", "1.0", "1.5"),
                Entry(1, "1.0", "1.5", "0.5", "1.0")>> }
      [] from = "JPY" ->
            { <<Entry(4, "1.0", "2.0", "0.5", "1.5"),
                Entry(3, "0.5", "1.0", "0.5", "1.0"),
                Entry(2, "1.0", "1.0", "0.5", "0.5")>> }
      [] OTHER -> { <<Entry(1, "1.0", "1.0", "1.0", "1.0")>> }

Body(key, value) == [k \in {key} |-> value]

EmptyBody == [k \in {} |-> k]

\* What `await fetch(url)` and `await response.json()` can yield for a pair:
\* the request is rejected (network failure), or a response arrives with a
\* status and a JSON body.
FetchOutcomes(from) ==
    {[rejected |-> TRUE, ok |-> FALSE, data |-> EmptyBody],
     [rejected |-> FALSE, ok |-> FALSE, data |-> EmptyBody],
     [rejected |-> FALSE, ok |-> TRUE, data |-> Body("Note", "rate limit")],
     [rejected |-> FALSE, ok |-> TRUE, data |-> Body("Error Message", "invalid")],
     [rejected |-> FALSE, ok |-> TRUE, data |-> EmptyBody]}
    \cup {[rejected |-> FALSE, ok |-> TRUE, data |-> Body(TimeSeriesKey, ts)] :
             ts \in TimeSeriesOf(from)}

\* The rows the backend table may hold when the page is opened.
SeedSeries(from) ==
    CASE from = "EUR" -> <<DailyRate(1, <<1, 1>>, <<3, 2>>, <<1, 2>>, <<1, 1>>),
                           DailyRate(2, <<3, 2>>, <<2, 1>>, <<1, 1>>, <<3, 2>>)>>
      [] from = "JPY" -> <<DailyRate(2, <<1, 1>>, <<1, 1>>, <<1, 2>>, <<1, 2>>),
                           DailyRate(3, <<1, 2>>, <<1, 1>>, <<1, 2>>, <<1, 1>>)>>
      [] OTHER -> <<>>

SeedRows(from) ==
    {ExchangeRateRecord(from, BASE_CURRENCY, SeedSeries(from)[i]) :
        i \in DOMAIN SeedSeries(from)}

SeedTables == {{}, SeedRows("EUR") \cup SeedRows("JPY")}

\* ----------------------------------------------------- getCurrencyPairData

\* The call the user interface awaits, and the two calls it makes of itself.
TaskIds == {"root", "legFrom", "legTo"}

IdleTask ==
    [pc |-> "idle", from |-> "", to |-> "", forceRefresh |-> FALSE,
     cached |-> Null,          \* const cached = await getCurrencyData(from, to)
     backendRates |-> <<>>,    \* const backendRates = await fetchRatesFromBackend(..)
     rates |-> <<>>,           \* const rates
     wakeAt |-> 0,             \* when the setTimeout of fetchFromApi fires
     sentAt |-> Null,          \* when fetch(url) was called, null while it was not
     response |-> Null,        \* what fetch(url) and response.json() yielded
     status |-> "pending",     \* "pending", "fulfilled" or "rejected"
     result |-> <<>>,          \* the series the promise is fulfilled with
     error |-> "",             \* the error the promise is rejected with
     caught |-> "",            \* the error caught in step 3, "" when none was
     log |-> <<>>]             \* what the call has done so far, in order

Fulfil(tk, rates) == [tk EXCEPT !.pc = "done", !.status = "fulfilled", !.result = rates]

Reject(tk, error) == [tk EXCEPT !.pc = "done", !.status = "rejected", !.error = error]

Did(tk, what) == [tk EXCEPT !.log = @ \o what]

\* ServeFromCache with the test of forceRefresh inverted.
ServeFromCache_WhenForced(cached, forceRefresh) ==
    cached # Null /\ Len(cached[1].rates) > 0 /\ forceRefresh

\* if (cached && cached.rates.length > 0 && !forceRefresh)
ServeFromCache(cached, forceRefresh) ==
    cached # Null /\ Len(cached[1].rates) > 0 /\ ~forceRefresh

\* if (cached && cached.rates.length > 0) in the catch of step 3
HasStale(cached) == cached # Null /\ Len(cached[1].rates) > 0

\* CatchApiError throwing the error on whatever the cache held.
CatchApiError_AlwaysThrow(tk, error) ==
    Reject([tk EXCEPT !.caught = error], error)

\* CatchApiError returning [] where it has no stale copy to serve.
CatchApiError_EmptyOnError(tk, error) ==
    LET failed == [tk EXCEPT !.caught = error]
    IN IF HasStale(tk.cached)
       THEN Fulfil(failed, tk.cached[1].rates)
       ELSE Fulfil(failed, <<>>)

\* catch (error): serve the stale copy, or throw the error on.
CatchApiError(tk, error) ==
    LET failed == [tk EXCEPT !.caught = error]
    IN IF HasStale(tk.cached)
       THEN Fulfil(failed, tk.cached[1].rates)
       ELSE Reject(failed, error)

\* fetchFromApi up to its first await: the budget check, then the wait for
\* the rest of the interval or the request at once.
CallFetchFromApi(tk) ==
    LET called == Did(tk, <<"fetchFromApi">>)
    IN IF ~canMakeApiCall
       THEN CatchApiError(called, "budget")
       ELSE IF getTimeUntilNextCall > 0
            THEN [called EXCEPT !.pc = "apiWait", !.wakeAt = now + getTimeUntilNextCall]
            ELSE [called EXCEPT !.pc = "apiFetch", !.sentAt = Some(now)]

\* NeedsApi for a forced refresh only.
NeedsApi_ForcedOnly(cached, forceRefresh) == forceRefresh

\* if (forceRefresh || !cached || cached.rates.length === 0)
NeedsApi(cached, forceRefresh) ==
    forceRefresh \/ cached = Null \/ Len(cached[1].rates) = 0

Step3(tk) ==
    IF NeedsApi(tk.cached, tk.forceRefresh)
    THEN CallFetchFromApi(tk)
    ELSE Fulfil(tk, <<>>)

\* ResponseError looking at the status alone.
ResponseError_StatusOnly(out) == IF ~out.ok THEN "http" ELSE ""

\* What fetchFromApi does with the response: the error it throws, or "".
ResponseError(out) ==
    IF ~out.ok THEN "http"
    ELSE IF "Note" \in DOMAIN out.data THEN "note"
    ELSE IF "Error Message" \in DOMAIN out.data THEN "provider"
    ELSE ""

\* Enter without the test for identical currencies.
Enter_NoSameTest(from, to, forceRefresh) ==
    LET tk == [IdleTask EXCEPT !.from = from, !.to = to, !.forceRefresh = forceRefresh]
    IN IF from = BASE_CURRENCY /\ to # BASE_CURRENCY
       THEN [tk EXCEPT !.pc = "awaitInverse"]
       ELSE IF from # BASE_CURRENCY /\ to # BASE_CURRENCY
            THEN [tk EXCEPT !.pc = "awaitCross"]
       ELSE [tk EXCEPT !.pc = "cacheGet"]

\* The code of a call up to its first await.
Enter(from, to, forceRefresh) ==
    LET tk == [IdleTask EXCEPT !.from = from, !.to = to, !.forceRefresh = forceRefresh]
    IN IF from = to THEN Fulfil(tk, <<>>)
       ELSE IF from = BASE_CURRENCY /\ to # BASE_CURRENCY
            THEN [tk EXCEPT !.pc = "awaitInverse"]
       ELSE IF from # BASE_CURRENCY /\ to # BASE_CURRENCY
            THEN [tk EXCEPT !.pc = "awaitCross"]
       ELSE [tk EXCEPT !.pc = "cacheGet"]

\* The recursive calls a call makes before it first awaits.
Legs(from, to, forceRefresh) ==
    IF from = to
    THEN [legFrom |-> IdleTask, legTo |-> IdleTask]
    ELSE IF from = BASE_CURRENCY /\ to # BASE_CURRENCY
    THEN [legFrom |-> Enter(to, BASE_CURRENCY, forceRefresh), legTo |-> IdleTask]
    ELSE IF from # BASE_CURRENCY /\ to # BASE_CURRENCY
    THEN [legFrom |-> Enter(from, BASE_CURRENCY, forceRefresh),
          legTo |-> Enter(to, BASE_CURRENCY, forceRefresh)]
    ELSE [legFrom |-> IdleTask, legTo |-> IdleTask]

Quiet == \A t \in TaskIds : tasks[t].pc = "idle"

\* The call repeats the one that returned last.
Repeats(from, to, forceRefresh) ==
    /\ lastReturned # Null
    /\ lastReturned[1].from = from
    /\ lastReturned[1].to = to
    /\ lastReturned[1].forceRefresh = forceRefresh

\* The user interface calls getCurrencyPairData(from, to, forceRefresh).
Call(from, to, forceRefresh) ==
    /\ Quiet
    /\ tasks' = [t \in TaskIds |->
                    IF t = "root" THEN Enter(from, to, forceRefresh)
                    ELSE Legs(from, to, forceRefresh)[t]]
    /\ lastReturned' = IF Repeats(from, to, forceRefresh) THEN lastReturned ELSE Null
    /\ UNCHANGED <<job, currencyData, metadata, stored, exchange_rates, now, today>>

\* STEP 1: await getCurrencyData(from, to) completes.
CacheGetDone(t) ==
    LET tk == tasks[t]
        read == [Did(tk, <<"cacheGet">>) EXCEPT !.cached = getCurrencyData(tk.from, tk.to)]
    IN /\ tk.pc = "cacheGet"
       /\ tasks' = [tasks EXCEPT ![t] =
                       IF ServeFromCache(read.cached, read.forceRefresh)
                       THEN Fulfil(read, read.cached[1].rates)
                       ELSE IF ~read.forceRefresh
                            THEN [read EXCEPT !.pc = "backendGet"]
                            ELSE Step3(read)]
       /\ UNCHANGED <<job, currencyData, metadata, stored, exchange_rates, now, today, lastReturned>>

\* STEP 2: await fetchRatesFromBackend(from, to) completes.
BackendGetDone(t, outcome) ==
    LET tk == tasks[t]
        got == [Did(tk, <<"backendGet">>) EXCEPT
                   !.backendRates = fetchRatesFromBackend(tk.from, tk.to, outcome)]
    IN /\ tk.pc = "backendGet"
       /\ tasks' = [tasks EXCEPT ![t] =
                       IF Len(got.backendRates) > 0
                       THEN [got EXCEPT !.pc = "adoptPut",
                                        !.rates = ToDailyRates(got.backendRates)]
                       ELSE Step3(got)]
       /\ UNCHANGED <<job, currencyData, metadata, stored, exchange_rates, now, today, lastReturned>>

\* STEP 2: await saveCurrencyData(from, to, rates) completes; return rates.
AdoptPutDone(t) ==
    LET tk == tasks[t]
    IN /\ tk.pc = "adoptPut"
       /\ currencyData' = PutCurrencyData(currencyData, tk.from, tk.to, tk.rates)
       /\ tasks' = [tasks EXCEPT ![t] = Fulfil(Did(tk, <<"cachePut">>), tk.rates)]
       /\ UNCHANGED <<job, metadata, stored, exchange_rates, now, today, lastReturned>>

\* fetchFromApi: the setTimeout(resolve, waitTime) fires; fetch(url) is sent.
TimerFire(t) ==
    LET tk == tasks[t]
    IN /\ tk.pc = "apiWait"
       /\ now >= tk.wakeAt
       /\ tasks' = [tasks EXCEPT ![t].pc = "apiFetch", ![t].sentAt = Some(now)]
       /\ UNCHANGED <<job, currencyData, metadata, stored, exchange_rates, now, today, lastReturned>>

\* fetchFromApi: await fetch(url) and await response.json() complete.
ApiFetchDone(t, out) ==
    LET tk == [tasks[t] EXCEPT !.response = Some(out)]
    IN /\ tk.pc = "apiFetch"
       /\ IF out.rejected
          THEN /\ tasks' = [tasks EXCEPT ![t] =
                               CatchApiError(Did(tk, <<"fetch">>), "network")]
               /\ UNCHANGED stored
          ELSE /\ stored' = Some(RecordedData)
               /\ tasks' = [tasks EXCEPT ![t] =
                               LET sent == Did(tk, <<"fetch", "recordApiCall">>)
                               IN IF ResponseError(out) # ""
                                  THEN CatchApiError(sent, ResponseError(out))
                                  ELSE [sent EXCEPT !.pc = "apiPut",
                                                    !.rates = parseRates(out.data)]]
       /\ UNCHANGED <<job, currencyData, metadata, exchange_rates, now, today, lastReturned>>

\* STEP 3: await saveCurrencyData(from, to, rates) completes.
ApiPutDone(t) ==
    LET tk == tasks[t]
        put == Did(tk, <<"cachePut">>)
    IN /\ tk.pc = "apiPut"
       /\ currencyData' = PutCurrencyData(currencyData, tk.from, tk.to, tk.rates)
       /\ tasks' = [tasks EXCEPT ![t] =
                       IF Len(tk.rates) > 0
                       THEN [put EXCEPT !.pc = "backendPost"]
                       ELSE Fulfil(put, tk.rates)]
       /\ UNCHANGED <<job, metadata, stored, exchange_rates, now, today, lastReturned>>

\* STEP 3: await saveRatesToBackend(backendRates) completes; return rates.
BackendPostDone(t, saved) ==
    LET tk == tasks[t]
    IN /\ tk.pc = "backendPost"
       /\ exchange_rates' = IF saved
                            THEN Upsert(exchange_rates, tk.from, tk.to, tk.rates)
                            ELSE exchange_rates
       /\ tasks' = [tasks EXCEPT ![t] = Fulfil(Did(tk, <<"backendPost">>), tk.rates)]
       /\ UNCHANGED <<job, currencyData, metadata, stored, now, today, lastReturned>>

\* Case 1 after the await: the error of the leg is thrown on, an empty series
\* is returned as it is, any other is inverted.
InverseOutcome(tk, leg) ==
    IF leg.status = "rejected" THEN Reject(tk, leg.error)
    ELSE IF Len(leg.result) = 0 THEN Fulfil(tk, <<>>)
    ELSE Fulfil(tk, InvertSeries(leg.result))

\* Case 1: await getCurrencyPairData(to, BASE_CURRENCY, forceRefresh) settles.
InverseDone(t) ==
    LET tk == tasks[t]
        leg == tasks["legFrom"]
    IN /\ t = "root"
       /\ tk.pc = "awaitInverse"
       /\ leg.pc = "done"
       /\ tasks' = [tasks EXCEPT ![t] = InverseOutcome(tk, leg)]
       /\ UNCHANGED <<job, currencyData, metadata, stored, exchange_rates, now, today, lastReturned>>

\* Promise.all of the two legs: fulfilled when both are, rejected as soon as
\* one is.
PromiseAll(fromToUsd, toToUsd) ==
    IF fromToUsd.status = "rejected" \/ toToUsd.status = "rejected" THEN "rejected"
    ELSE IF fromToUsd.status = "fulfilled" /\ toToUsd.status = "fulfilled" THEN "fulfilled"
    ELSE "pending"

\* CrossOutcome returning [] when a leg was rejected.
CrossOutcome_SwallowError(tk, fromToUsd, toToUsd, error) ==
    IF PromiseAll(fromToUsd, toToUsd) = "rejected" THEN Fulfil(tk, <<>>)
    ELSE IF Len(fromToUsd.result) = 0 \/ Len(toToUsd.result) = 0 THEN Fulfil(tk, <<>>)
    ELSE Fulfil(tk, calculateCrossRate(fromToUsd.result, toToUsd.result))

\* Case 2 after the await: the rejection (with the error of the leg that was
\* rejected) is thrown on; otherwise the cross series, or [] for an empty leg.
CrossOutcome(tk, fromToUsd, toToUsd, error) ==
    IF PromiseAll(fromToUsd, toToUsd) = "rejected" THEN Reject(tk, error)
    ELSE IF Len(fromToUsd.result) = 0 \/ Len(toToUsd.result) = 0 THEN Fulfil(tk, <<>>)
    ELSE Fulfil(tk, calculateCrossRate(fromToUsd.result, toToUsd.result))

\* Case 2: await Promise.all([...]) settles.
CrossDone(t) ==
    LET tk == tasks[t]
        fromToUsd == tasks["legFrom"]
        toToUsd == tasks["legTo"]
    IN /\ t = "root"
       /\ tk.pc = "awaitCross"
       /\ PromiseAll(fromToUsd, toToUsd) # "pending"
       /\ \E leg \in {fromToUsd, toToUsd} :
             /\ PromiseAll(fromToUsd, toToUsd) = "rejected" => leg.status = "rejected"
             /\ tasks' = [tasks EXCEPT ![t] =
                             CrossOutcome(tk, fromToUsd, toToUsd, leg.error)]
       /\ UNCHANGED <<job, currencyData, metadata, stored, exchange_rates, now, today, lastReturned>>

\* The caller takes the settled result; nothing of the call is in flight.
Return ==
    /\ tasks["root"].pc = "done"
    /\ \A t \in TaskIds : tasks[t].pc \in {"idle", "done"}
    /\ tasks' = [t \in TaskIds |-> IdleTask]
    /\ lastReturned' =
          LET tk == tasks["root"]
          IN IF tk.from # BASE_CURRENCY /\ tk.to = BASE_CURRENCY /\ ~tk.forceRefresh
             THEN Some([from |-> tk.from, to |-> tk.to, forceRefresh |-> tk.forceRefresh,
                        status |-> tk.status, result |-> tk.result, error |-> tk.error,
                        log |-> tk.log])
             ELSE Null
    /\ UNCHANGED <<job, currencyData, metadata, stored, exchange_rates, now, today>>

\* clearCache: both stores are emptied.
clearCache ==
    /\ Quiet
    /\ currencyData' = [k \in PairKeys |-> Null]
    /\ metadata' = Null
    /\ lastReturned' = Null
    /\ UNCHANGED <<job, stored, exchange_rates, now, today, tasks>>

\* Time passes while a call is in flight.
Elapse ==
    /\ ~Quiet
    /\ now < MinIntervalMs + MaxTicks * (MinIntervalMs \div 2)
    /\ now' = now + MinIntervalMs \div 2
    /\ UNCHANGED <<job, currencyData, metadata, stored, exchange_rates, today, tasks, lastReturned>>

\* ------------------------------------------------------ prefetchBasePairs

\* The batch refresh or synchronisation in progress: the locals of the
\* function, and what it has called so far.
IdleJob ==
    [op |-> "idle", pc |-> "idle", forceRefresh |-> FALSE,
     caller |-> "",           \* "handleRefresh" when that called the batch
     view |-> <<>>,           \* handleRefresh: the pair on display, <<from, to>>
     callsBefore |-> 0,       \* handleRefresh: getCallsToday() at the click
     priorityCurrency |-> Null,  \* backgroundSyncFromBackend: the argument
     order |-> <<>>,          \* the currencies the loop goes through
     visited |-> <<>>,        \* the currencies hasCachedData was called for
     i |-> 0,                 \* the position of the loop in order
     current |-> 0, success |-> 0, failed |-> 0, totalRecords |-> 0,
     rates |-> <<>>,          \* const rates / const backendRates
     wakeAt |-> 0,            \* when the setTimeout of fetchFromApi fires
     pairs |-> <<>>,          \* syncAllCachedDataToBackend: const cachedPairs
     at |-> 0,                \* syncAllCachedDataToBackend: let i of the inner loop
     chunks |-> <<>>,         \* the calls of saveRatesToBackend and their results
     available |-> Null,      \* const backendAvailable, null before the probe
     adapter |-> <<>>,        \* the currencies fetchFromApi was called for
     errors |-> <<>>,         \* what fetchFromApi has thrown: <<currency, error>>
     requests |-> <<>>,       \* the currencies fetchRatesFromBackend was called for
     progress |-> <<>>,       \* the calls of onProgress: <<current, total, currency>>
     completed |-> <<>>,      \* the calls of onComplete
     data |-> <<>>,           \* useCurrencyData: const [data, setData]
     loading |-> FALSE,       \* useCurrencyData: const [loading, setLoading]
     error |-> Null,          \* useCurrencyData: const [error, setError]
     settled |-> <<>>,        \* useCurrencyData: the calls of fetchData that are through
     superseded |-> <<>>,     \* useCurrencyData: the calls in flight at a later call
     returned |-> Null]       \* what the function returned to its caller

\* const currency of the loop; the base currency stands in outside the loop.
Currency(j) == IF j.i \in DOMAIN j.order THEN j.order[j.i] ELSE BASE_CURRENCY

\* onProgress?.(current, total, currency)
OnProgress(j) ==
    [j EXCEPT !.progress = @ \o <<<<j.current, Len(j.order), Currency(j)>>>>]

\* success++; current++; onProgress: the loop is through with a currency.
LoopSucceeded(j) ==
    [OnProgress([j EXCEPT !.success = @ + 1, !.current = @ + 1]) EXCEPT !.i = @ + 1]

\* LoopFailed leaving the loop.
LoopFailed_Aborts(j) ==
    [OnProgress([j EXCEPT !.failed = @ + 1, !.current = @ + 1]) EXCEPT
        !.i = Len(j.order) + 1]

\* catch: failed++; current++; onProgress.
LoopFailed(j) ==
    [OnProgress([j EXCEPT !.failed = @ + 1, !.current = @ + 1]) EXCEPT !.i = @ + 1]

\* fetchFromApi throws.
Thrown(j, error) == [j EXCEPT !.errors = @ \o <<<<Currency(j), error>>>>]

\* return { success, failed }
BatchReturn(j) ==
    [j EXCEPT !.pc = "done",
              !.returned = Some([success |-> j.success, failed |-> j.failed])]

\* AllSucceeded whatever has failed.
AllSucceeded_Always(j) == TRUE

\* if (failed === 0)
AllSucceeded(j) == j.failed = 0

\* The for loop of prefetchBasePairs from the currency at j.i on, up to its
\* next await: fetchFromApi throws at once while the budget is used up.
\* mayCall and waitTime are canMakeApiCall() and getTimeUntilNextCall() as
\* the loop finds them.
RECURSIVE BatchLoop(_, _, _)
BatchLoop(j, mayCall, waitTime) ==
    IF j.i > Len(j.order)
    THEN IF AllSucceeded(j) THEN [j EXCEPT !.pc = "mark"] ELSE BatchReturn(j)
    ELSE LET called == [j EXCEPT !.adapter = @ \o <<Currency(j)>>]
         IN IF ~mayCall
            THEN BatchLoop(LoopFailed(Thrown(called, "budget")), mayCall, waitTime)
            ELSE IF waitTime > 0
                 THEN [called EXCEPT !.pc = "apiWait", !.wakeAt = now + waitTime]
                 ELSE [called EXCEPT !.pc = "apiFetch"]

\* ChecksMarker whatever forceRefresh is.
ChecksMarker_Always(forceRefresh) == TRUE

\* if (!forceRefresh)
ChecksMarker(forceRefresh) == ~forceRefresh

\* prefetchBasePairs(onProgress, forceRefresh) up to its first await.
EnterBatch(forceRefresh) ==
    LET j == [IdleJob EXCEPT !.op = "prefetchBasePairs", !.forceRefresh = forceRefresh,
                             !.order = FETCH_CURRENCIES, !.i = 1]
    IN IF ChecksMarker(forceRefresh) THEN [j EXCEPT !.pc = "marker"] ELSE BatchLoop(j, canMakeApiCall, getTimeUntilNextCall)

\* The user interface calls prefetchBasePairs(onProgress, forceRefresh).
prefetchBasePairs(forceRefresh) ==
    /\ Quiet
    /\ job.pc = "idle"
    /\ job' = EnterBatch(forceRefresh)
    /\ UNCHANGED <<currencyData, metadata, stored, exchange_rates, now, today, tasks,
                   lastReturned>>

\* await areAllBasePairsUpdatedToday() completes.
MarkerRead ==
    /\ job.op = "prefetchBasePairs"
    /\ job.pc = "marker"
    /\ job' = IF areAllBasePairsUpdatedToday
              THEN [job EXCEPT !.pc = "done",
                               !.returned = Some([success |-> Len(FETCH_CURRENCIES),
                                                  failed |-> 0])]
              ELSE BatchLoop(job, canMakeApiCall, getTimeUntilNextCall)
    /\ UNCHANGED <<currencyData, metadata, stored, exchange_rates, now, today, tasks,
                   lastReturned>>

\* fetchFromApi: the setTimeout(resolve, waitTime) fires; fetch(url) is sent.
\* The timer is the only event pending: the clock advances to it.
BatchTimerFire ==
    /\ job.op = "prefetchBasePairs"
    /\ job.pc = "apiWait"
    /\ now' = IF job.wakeAt > now THEN job.wakeAt ELSE now
    /\ job' = [job EXCEPT !.pc = "apiFetch"]
    /\ UNCHANGED <<currencyData, metadata, stored, exchange_rates, today, tasks,
                   lastReturned>>

\* The response carries a daily series.
IsSeries(out) == ~out.rejected /\ out.ok /\ TimeSeriesKey \in DOMAIN out.data

\* fetchFromApi: await fetch(url) and await response.json() complete. An
\* error is caught by the loop, which goes on to the next currency.
BatchFetchDone(out) ==
    /\ job.op = "prefetchBasePairs"
    /\ job.pc = "apiFetch"
    /\ ~IsSeries(out) => job.i <= MaxFaults
    /\ UNCHANGED <<currencyData, metadata, exchange_rates, now, today, tasks, lastReturned>>
    /\ LET got == job
       IN IF out.rejected
          THEN /\ UNCHANGED stored
               /\ job' = BatchLoop(LoopFailed(Thrown(got, "network")),
                                   canMakeApiCall, getTimeUntilNextCall)
          ELSE /\ stored' = Some(RecordedData)
               /\ IF ResponseError(out) # ""
                  THEN job' = BatchLoop(LoopFailed(Thrown(got, ResponseError(out))),
                                        canMakeApiCall', getTimeUntilNextCall')
                  ELSE job' = [got EXCEPT !.pc = "apiPut", !.rates = parseRates(out.data)]

\* await saveCurrencyData(currency, BASE_CURRENCY, rates) completes.
BatchPutDone ==
    /\ job.op = "prefetchBasePairs"
    /\ job.pc = "apiPut"
    /\ currencyData' = PutCurrencyData(currencyData, Currency(job), BASE_CURRENCY,
                                       job.rates)
    /\ job' = BatchLoop(LoopSucceeded(job), canMakeApiCall, getTimeUntilNextCall)
    /\ UNCHANGED <<metadata, stored, exchange_rates, now, today, tasks, lastReturned>>

\* await markBatchUpdateComplete() completes; return { success, failed }.
MarkDone ==
    /\ job.op = "prefetchBasePairs"
    /\ job.pc = "mark"
    /\ metadata' = Some(today)
    /\ job' = BatchReturn(job)
    /\ UNCHANGED <<currencyData, stored, exchange_rates, now, today, tasks, lastReturned>>

\* The caller takes what the function returned.
JobReturn ==
    /\ job.pc = "done"
    /\ job.caller = ""
    /\ job' = IdleJob
    /\ UNCHANGED <<currencyData, metadata, stored, exchange_rates, now, today, tasks,
                   lastReturned>>

\* ------------------- backgroundSyncFromBackend and prefetchAllFromBackend

\* let orderedCurrencies: the priority currency first, when one is given and
\* it is not the base currency.
OrderedCurrencies_PriorityLast(priorityCurrency) ==
    IF priorityCurrency # Null /\ priorityCurrency[1] # BASE_CURRENCY
    THEN SelectSeq(FETCH_CURRENCIES, LAMBDA c : c # priorityCurrency[1])
            \o <<priorityCurrency[1]>>
    ELSE FETCH_CURRENCIES

OrderedCurrencies(priorityCurrency) ==
    IF priorityCurrency # Null /\ priorityCurrency[1] # BASE_CURRENCY
    THEN <<priorityCurrency[1]>>
            \o SelectSeq(FETCH_CURRENCIES, LAMBDA c : c # priorityCurrency[1])
    ELSE FETCH_CURRENCIES

\* prefetchAllFromBackend: onProgress?.(current, total, pairName)
PairProgress(j) ==
    IF j.op = "prefetchAllFromBackend"
    THEN [j EXCEPT !.progress =
             @ \o <<<<j.current, Len(j.order), getPairKey(Currency(j), BASE_CURRENCY)>>>>]
    ELSE j

\* The head of the loop body up to its first await: const hasData = await ..
SyncIterate(j) ==
    [j EXCEPT !.pc = "hasData",
              !.current = IF j.op = "prefetchAllFromBackend" THEN @ + 1 ELSE @,
              !.visited = @ \o <<Currency(j)>>]

\* SyncFinish without the call of onComplete.
SyncFinish_NoCallback(j) ==
    LET counts == [success |-> j.success, failed |-> j.failed,
                   totalRecords |-> j.totalRecords]
    IN IF j.op = "backgroundSyncFromBackend"
       THEN [j EXCEPT !.pc = "done"]
       ELSE [j EXCEPT !.pc = "done", !.returned = Some(counts)]

\* After the loop: the background sync calls onComplete, the blocking
\* version returns the counts.
SyncFinish(j) ==
    LET counts == [success |-> j.success, failed |-> j.failed,
                   totalRecords |-> j.totalRecords]
    IN IF j.op = "backgroundSyncFromBackend"
       THEN [j EXCEPT !.pc = "done", !.completed = @ \o <<counts>>]
       ELSE [j EXCEPT !.pc = "done", !.returned = Some(counts)]

\* The loop goes on to the next currency, or ends.
SyncLoop(j) ==
    LET next == [j EXCEPT !.i = @ + 1]
    IN IF next.i > Len(next.order) THEN SyncFinish(next) ELSE SyncIterate(next)

\* SyncSkips for a pair that has a record, however empty.
SyncSkips_AnyRecord(from, to) == getCurrencyData(from, to) # Null

\* if (hasData)
SyncSkips(from, to) == hasCachedData(from, to)

\* SyncCounts counting a currency without backend rows as a success.
SyncCounts_EmptyAsSuccess(j, adopted) == [j EXCEPT !.success = @ + 1]

\* success++ or failed++
SyncCounts(j, adopted) ==
    IF adopted THEN [j EXCEPT !.success = @ + 1] ELSE [j EXCEPT !.failed = @ + 1]

\* RequestBackend calling fetchFromApi on the way.
RequestBackend_ViaAdapter(j) ==
    [j EXCEPT !.pc = "backendGet", !.requests = @ \o <<Currency(j)>>,
              !.adapter = @ \o <<Currency(j)>>]

\* fetchRatesFromBackend(currency, BASE_CURRENCY) is called.
RequestBackend(j) ==
    [j EXCEPT !.pc = "backendGet", !.requests = @ \o <<Currency(j)>>]

\* The user interface calls backgroundSyncFromBackend(onComplete,
\* priorityCurrency): the function starts the loop and returns at its first
\* await, without awaiting the loop.
backgroundSyncFromBackend(priorityCurrency) ==
    /\ Quiet
    /\ job.pc = "idle"
    /\ job' = SyncIterate([IdleJob EXCEPT !.op = "backgroundSyncFromBackend",
                                          !.priorityCurrency = priorityCurrency,
                                          !.order = OrderedCurrencies(priorityCurrency),
                                          !.i = 1,
                                          !.returned = Some("void")])
    /\ UNCHANGED <<currencyData, metadata, stored, exchange_rates, now, today, tasks,
                   lastReturned>>

\* The user interface calls prefetchAllFromBackend(onProgress).
prefetchAllFromBackend ==
    /\ Quiet
    /\ job.pc = "idle"
    /\ job' = SyncIterate([IdleJob EXCEPT !.op = "prefetchAllFromBackend",
                                          !.order = FETCH_CURRENCIES, !.i = 1])
    /\ UNCHANGED <<currencyData, metadata, stored, exchange_rates, now, today, tasks,
                   lastReturned>>

\* await hasCachedData(currency, BASE_CURRENCY) completes.
HasDataDone ==
    /\ job.pc = "hasData"
    /\ job' = IF SyncSkips(Currency(job), BASE_CURRENCY)
              THEN SyncLoop(PairProgress(SyncCounts(job, TRUE)))
              ELSE RequestBackend(job)
    /\ UNCHANGED <<currencyData, metadata, stored, exchange_rates, now, today, tasks,
                   lastReturned>>

\* await fetchRatesFromBackend(currency, BASE_CURRENCY) completes.
SyncBackendGetDone(outcome) ==
    LET backendRates == fetchRatesFromBackend(Currency(job), BASE_CURRENCY, outcome)
    IN /\ job.pc = "backendGet"
       /\ job' = IF Len(backendRates) > 0
                 THEN [job EXCEPT !.pc = "syncPut", !.rates = ToDailyRates(backendRates)]
                 ELSE SyncLoop(PairProgress(SyncCounts(job, FALSE)))
       /\ UNCHANGED <<currencyData, metadata, stored, exchange_rates, now, today, tasks,
                      lastReturned>>

\* await saveCurrencyData(currency, BASE_CURRENCY, rates) completes.
SyncPutDone ==
    /\ job.pc = "syncPut"
    /\ currencyData' = PutCurrencyData(currencyData, Currency(job), BASE_CURRENCY,
                                       job.rates)
    /\ job' = SyncLoop(PairProgress(SyncCounts(
                 [job EXCEPT !.totalRecords = @ + Len(job.rates)], TRUE)))
    /\ UNCHANGED <<metadata, stored, exchange_rates, now, today, tasks, lastReturned>>

\* ------------------------------------------------------------ handleRefresh

\* The user clicks the refresh button while the single view shows the pair
\* (from, to): await prefetchBasePairs(() => {}, true) is called.
handleRefresh(from, to) ==
    /\ Quiet
    /\ job.pc = "idle"
    /\ job' = [EnterBatch(TRUE) EXCEPT !.caller = "handleRefresh",
                                       !.view = <<from, to>>,
                                       !.callsBefore = getCallsToday]
    /\ UNCHANGED <<currencyData, metadata, stored, exchange_rates, now, today, tasks,
                   lastReturned>>

\* prefetchBasePairs has returned: await singleCurrencyData.refresh(), that
\* is fetchData(true), which calls getCurrencyPairData(from, to, true).
ViewRefresh ==
    /\ job.caller = "handleRefresh"
    /\ job.pc = "done"
    /\ job' = [job EXCEPT !.pc = "viewRefresh"]
    /\ tasks' = [t \in TaskIds |->
                    IF t = "root" THEN Enter(job.view[1], job.view[2], TRUE)
                    ELSE Legs(job.view[1], job.view[2], TRUE)[t]]
    /\ lastReturned' = Null
    /\ UNCHANGED <<currencyData, metadata, stored, exchange_rates, now, today>>

\* fetchData: the call of getCurrencyPairData settles, fulfilled or caught;
\* handleRefresh is through.
ViewDone ==
    /\ job.pc = "viewRefresh"
    /\ tasks["root"].pc = "done"
    /\ job' = [job EXCEPT !.pc = "refreshed"]
    /\ UNCHANGED <<currencyData, metadata, stored, exchange_rates, now, today, tasks,
                   lastReturned>>

\* The calls that wait for their setTimeout.
Waiting == {t \in TaskIds : tasks[t].pc = "apiWait" /\ tasks[t].wakeAt > now}

\* Nothing but timers is pending: the clock advances to the first of them.
AwaitTimer ==
    /\ Waiting # {}
    /\ \A t \in TaskIds : tasks[t].pc \in {"idle", "done", "apiWait", "awaitInverse",
                                           "awaitCross"}
    /\ now' = tasks[CHOOSE t \in Waiting :
                        \A u \in Waiting : tasks[t].wakeAt <= tasks[u].wakeAt].wakeAt
    /\ UNCHANGED <<currencyData, metadata, stored, exchange_rates, today, tasks,
                   lastReturned, job>>

\* ----------------------------------------------- syncAllCachedDataToBackend

\* The currency codes in the order of their strings, which is the order of
\* the keys `${from}/${to}` in the object store.
KeyOrder == <<"AUD", "CAD", "CHF", "CNY", "EUR", "GBP", "JPY", "NZD", "USD">>

\* getAllCachedPairs(): db.getAll('currencyData'), the records in key order.
getAllCachedPairs ==
    LET n == Len(KeyOrder)
        keys == [k \in 1..(n * n) |->
                    getPairKey(KeyOrder[((k - 1) \div n) + 1], KeyOrder[((k - 1) % n) + 1])]
        held == SelectSeq(keys, LAMBDA key : currencyData[key] # Null)
    IN [k \in DOMAIN held |->
           [from |-> held[k][1], to |-> held[k][2], rates |-> currencyData[held[k]][1].rates]]

\* ChunkEnd taking all that is left of the series.
ChunkEnd_Rest(at, len) == len

\* backendRates.slice(i, i + BATCH_SIZE) ends at i + BATCH_SIZE or at the
\* end of the series.
ChunkEnd(at, len) == IF at + BATCH_SIZE < len THEN at + BATCH_SIZE ELSE len

\* onProgress?.(current, total, pairName)
UploadProgress(j) ==
    [j EXCEPT !.progress = @ \o <<<<j.current, Len(j.pairs),
                                    getPairKey(j.pairs[j.i].from, j.pairs[j.i].to)>>>>]

\* saveRatesToBackend(batch) is called with the slice that starts at j.at.
SendChunk(j) ==
    [j EXCEPT !.pc = "save",
              !.chunks = @ \o <<[pair |-> j.i, lo |-> j.at + 1,
                                 hi |-> ChunkEnd(j.at, Len(j.pairs[j.i].rates)),
                                 saved |-> "pending"]>>]

\* The outer loop from the pair at j.i on, up to its next await: a pair with
\* an empty series is passed over.
RECURSIVE UploadLoop(_)
UploadLoop(j) ==
    IF j.i > Len(j.pairs)
    THEN [j EXCEPT !.pc = "done",
                   !.returned = Some([success |-> j.success, failed |-> j.failed,
                                      totalRecords |-> j.totalRecords])]
    ELSE LET entered == [j EXCEPT !.current = @ + 1]
         IN IF Len(j.pairs[j.i].rates) = 0
            THEN UploadLoop([UploadProgress(entered) EXCEPT !.i = @ + 1])
            ELSE SendChunk([entered EXCEPT !.at = 0])

\* What follows await saveRatesToBackend(batch): the throw into the catch,
\* the next slice, or the end of the pair.
AfterSave(j, saved) ==
    LET len == Len(j.pairs[j.i].rates)
    IN IF ~saved
       THEN UploadLoop([UploadProgress([j EXCEPT !.failed = @ + 1]) EXCEPT !.i = @ + 1])
       ELSE IF j.at + BATCH_SIZE < len
            THEN SendChunk([j EXCEPT !.at = @ + BATCH_SIZE])
            ELSE UploadLoop([UploadProgress([j EXCEPT !.totalRecords = @ + len,
                                                      !.success = @ + 1])
                                EXCEPT !.i = @ + 1])

\* The user interface calls syncAllCachedDataToBackend(onProgress).
syncAllCachedDataToBackend ==
    /\ Quiet
    /\ job.pc = "idle"
    /\ job' = [IdleJob EXCEPT !.op = "syncAllCachedDataToBackend", !.pc = "getAll"]
    /\ UNCHANGED <<currencyData, metadata, stored, exchange_rates, now, today, tasks,
                   lastReturned>>

\* await getAllCachedPairs() completes; isBackendAvailable() is called.
GetAllDone ==
    /\ job.pc = "getAll"
    /\ job' = [job EXCEPT !.pc = "probe", !.pairs = getAllCachedPairs, !.i = 1]
    /\ UNCHANGED <<currencyData, metadata, stored, exchange_rates, now, today, tasks,
                   lastReturned>>

\* await isBackendAvailable() completes: response.ok, or false when the
\* request is rejected.
ProbeDone(backendAvailable) ==
    /\ job.pc = "probe"
    /\ job' = LET probed == [job EXCEPT !.available = Some(backendAvailable)]
              IN IF ~backendAvailable
                 THEN [probed EXCEPT !.pc = "done",
                                     !.returned = Some([success |-> 0,
                                                        failed |-> Len(job.pairs),
                                                        totalRecords |-> 0])]
                 ELSE UploadLoop(probed)
    /\ UNCHANGED <<currencyData, metadata, stored, exchange_rates, now, today, tasks,
                   lastReturned>>

\* await saveRatesToBackend(batch) completes: the rows are upserted and true
\* is returned, or false is.
SaveDone(saved) ==
    LET pair == job.pairs[job.i]
        chunk == job.chunks[Len(job.chunks)]
        marked == [job EXCEPT !.chunks[Len(job.chunks)].saved = saved]
    IN /\ job.pc = "save"
       /\ exchange_rates' = IF saved
                            THEN Upsert(exchange_rates, pair.from, pair.to,
                                        SubSeq(pair.rates, chunk.lo, chunk.hi))
                            ELSE exchange_rates
       /\ job' = AfterSave(marked, saved)
       /\ UNCHANGED <<currencyData, metadata, stored, now, today, tasks, lastReturned>>

\* ----------------------------------------------------------- specification

\* The call budget found in localStorage when the page is opened.
StoredAtOpen ==
    {Null,
     Some([date |-> 1, calls |-> SAFE_LIMIT - 1, lastCall |-> MinIntervalMs \div 2])}

Init ==
    /\ currencyData = [k \in PairKeys |-> Null]
    /\ metadata = Null
    /\ stored \in StoredAtOpen
    /\ exchange_rates \in SeedTables
    /\ now = MinIntervalMs
    /\ today = 1
    /\ tasks = [t \in TaskIds |-> IdleTask]
    /\ lastReturned = Null
    /\ job = IdleJob

Next ==
    \/ \E from \in CallCodes, to \in CallCodes, forceRefresh \in BOOLEAN :
          Call(from, to, forceRefresh)
    \/ \E t \in TaskIds : CacheGetDone(t)
    \/ \E t \in TaskIds, outcome \in BackendOutcomes : BackendGetDone(t, outcome)
    \/ \E t \in TaskIds : AdoptPutDone(t)
    \/ \E t \in TaskIds : TimerFire(t)
    \/ \E t \in TaskIds : \E out \in FetchOutcomes(tasks[t].from) : ApiFetchDone(t, out)
    \/ \E t \in TaskIds : ApiPutDone(t)
    \/ \E t \in TaskIds, saved \in BOOLEAN : BackendPostDone(t, saved)
    \/ \E t \in TaskIds : InverseDone(t)
    \/ \E t \in TaskIds : CrossDone(t)
    \/ Return
    \/ clearCache
    \/ Elapse

Spec == Init /\ [][Next]_vars

\* ------------------------------------------- the rate limiter by itself

\* The operations of rateLimiter.ts called one after another, with the clock
\* and the calendar day advancing in between; no resolution is in flight.

\* recordApiCall()
recordApiCall ==
    /\ loadData.calls < MaxCalls
    /\ stored' = Some(RecordedData)
    /\ UNCHANGED <<job, currencyData, metadata, exchange_rates, now, today, tasks, lastReturned>>

\* resetDailyCounter()
resetDailyCounter ==
    /\ stored' = Some(FreshData)
    /\ UNCHANGED <<job, currencyData, metadata, exchange_rates, now, today, tasks, lastReturned>>

\* Date.now() advances.
Tick ==
    /\ now < MinIntervalMs + MaxLimiterTicks * (MinIntervalMs \div 2)
    /\ now' = now + MinIntervalMs \div 2
    /\ UNCHANGED <<job, currencyData, metadata, stored, exchange_rates, today, tasks, lastReturned>>

\* getTodayDate() yields the next day.
Midnight ==
    /\ today < MaxDay
    /\ today' = today + 1
    /\ UNCHANGED <<job, currencyData, metadata, stored, exchange_rates, now, tasks, lastReturned>>

LimiterNext ==
    \/ recordApiCall
    \/ resetDailyCounter
    \/ Tick
    \/ Midnight

LimiterSpec == Init /\ [][LimiterNext]_vars

\* ------------------------------------- batch refresh and synchronisation

\* The page is opened with a budget that lets one batch through and one
\* more call after it.
JobInit ==
    /\ currencyData = [k \in PairKeys |-> Null]
    /\ metadata = Null
    /\ stored = Some([date |-> 1, calls |-> SAFE_LIMIT - Len(FETCH_CURRENCIES) - 1,
                       lastCall |-> MinIntervalMs \div 2])
    /\ exchange_rates \in SeedTables
    /\ now = MinIntervalMs
    /\ today = 1
    /\ tasks = [t \in TaskIds |-> IdleTask]
    /\ lastReturned = Null
    /\ job = IdleJob

\* The batch operations of the user interface, one at a time.
JobNext ==
    \/ \E forceRefresh \in BOOLEAN : prefetchBasePairs(forceRefresh)
    \/ MarkerRead
    \/ BatchTimerFire
    \/ \E out \in FetchOutcomes(Currency(job)) : BatchFetchDone(out)
    \/ BatchPutDone
    \/ MarkDone
    \/ \E priorityCurrency \in {Null, Some(BASE_CURRENCY), Some("JPY")} :
          backgroundSyncFromBackend(priorityCurrency)
    \/ prefetchAllFromBackend
    \/ HasDataDone
    \/ \E outcome \in BackendOutcomes : SyncBackendGetDone(outcome)
    \/ SyncPutDone
    \/ JobReturn

JobSpec == JobInit /\ [][JobNext]_vars

\* The pairs the single view may show when the refresh button is clicked: a
\* pair with the base currency, its inverse, and a cross pair.
Views == {<<"EUR", BASE_CURRENCY>>, <<BASE_CURRENCY, "EUR">>, <<"EUR", "JPY">>}

\* One manual refresh after the page is opened: the forced batch, then the
\* refresh of the view, and what the calls of the view still do afterwards.
RefreshNext ==
    \/ \E view \in Views : handleRefresh(view[1], view[2])
    \/ BatchTimerFire
    \/ \E out \in FetchOutcomes(Currency(job)) : BatchFetchDone(out)
    \/ BatchPutDone
    \/ MarkDone
    \/ ViewRefresh
    \/ \E t \in TaskIds : CacheGetDone(t)
    \/ \E t \in TaskIds : TimerFire(t)
    \/ \E t \in TaskIds : \E out \in FetchOutcomes(tasks[t].from) : ApiFetchDone(t, out)
    \/ \E t \in TaskIds : ApiPutDone(t)
    \/ \E t \in TaskIds, saved \in BOOLEAN : BackendPostDone(t, saved)
    \/ \E t \in TaskIds : InverseDone(t)
    \/ \E t \in TaskIds : CrossDone(t)
    \/ AwaitTimer
    \/ ViewDone

RefreshSpec == Init /\ [][RefreshNext]_vars

\* A series of n days, as the provider's full history makes them.
LongSeries(n) == [d \in 1..n |-> DailyRate(d, One, One, One, One)]

\* The cache when the upload is asked for: a series for EUR, short, of one
\* full slice or longer, one for JPY or none, and the empty series an empty
\* answer of the provider left for GBP.
UploadInit ==
    /\ \E eur \in {SeedSeries("EUR"), LongSeries(LongRows - 1), LongSeries(LongRows)},
          jpy \in {Null, Some([rates |-> SeedSeries("JPY")])} :
          currencyData =
             [k \in PairKeys |->
                 IF k = getPairKey("EUR", BASE_CURRENCY)
                 THEN Some([rates |-> eur])
                 ELSE IF k = getPairKey("JPY", BASE_CURRENCY)
                 THEN jpy
                 ELSE IF k = getPairKey("GBP", BASE_CURRENCY)
                 THEN Some([rates |-> <<>>])
                 ELSE Null]
    /\ metadata = Null
    /\ stored = Null
    /\ exchange_rates \in SeedTables
    /\ now = MinIntervalMs
    /\ today = 1
    /\ tasks = [t \in TaskIds |-> IdleTask]
    /\ lastReturned = Null
    /\ job = IdleJob

\* The upload of the cache to the backend, as often as the user asks.
UploadNext ==
    \/ syncAllCachedDataToBackend
    \/ GetAllDone
    \/ \E backendAvailable \in BOOLEAN : ProbeDone(backendAvailable)
    \/ \E saved \in BOOLEAN : SaveDone(saved)
    \/ JobReturn

UploadSpec == UploadInit /\ [][UploadNext]_vars

\* The cache when the page is opened: empty, or with the series for EUR an
\* earlier visit left.
CachedAtOpen ==
    {[k \in PairKeys |-> Null],
     [k \in PairKeys |-> IF k = getPairKey("EUR", BASE_CURRENCY)
                         THEN Some([rates |-> SeedSeries("EUR")])
                         ELSE Null]}

ResolveInit ==
    /\ currencyData \in CachedAtOpen
    /\ metadata = Null
    /\ stored \in StoredAtOpen
    /\ exchange_rates \in SeedTables
    /\ now = MinIntervalMs
    /\ today = 1
    /\ tasks = [t \in TaskIds |-> IdleTask]
    /\ lastReturned = Null
    /\ job = IdleJob

\* What a call of getCurrencyPairData awaits settles: a read or write of
\* IndexedDB, a request to the backend or to the provider, a timer, a call
\* of itself.
ResolveStep ==
    \/ \E t \in TaskIds : CacheGetDone(t)
    \/ \E t \in TaskIds, outcome \in BackendOutcomes : BackendGetDone(t, outcome)
    \/ \E t \in TaskIds : AdoptPutDone(t)
    \/ AwaitTimer
    \/ \E t \in TaskIds : TimerFire(t)
    \/ \E t \in TaskIds : \E out \in FetchOutcomes(tasks[t].from) : ApiFetchDone(t, out)
    \/ \E t \in TaskIds : ApiPutDone(t)
    \/ \E t \in TaskIds, saved \in BOOLEAN : BackendPostDone(t, saved)
    \/ \E t \in TaskIds : InverseDone(t)
    \/ \E t \in TaskIds : CrossDone(t)

\* One call of getCurrencyPairData after the page is opened.
ResolveNext ==
    \/ \E from \in CallCodes, to \in CallCodes, forceRefresh \in BOOLEAN :
          Call(from, to, forceRefresh)
    \/ ResolveStep

\* The same, where whatever the call awaits settles in the end.
ResolveLiveSpec == ResolveInit /\ [][ResolveNext]_vars /\ WF_vars(ResolveStep)

\* A step of the loop of the synchronisation: an awaited read or write of
\* IndexedDB, or an awaited request to the backend, completes.
SyncStep ==
    \/ HasDataDone
    \/ \E outcome \in BackendOutcomes : SyncBackendGetDone(outcome)
    \/ SyncPutDone

\* The same, where whatever the synchronisation awaits settles in the end:
\* IndexedDB answers, and a request to the backend is fulfilled or rejected.
JobLiveSpec == JobInit /\ [][JobNext]_vars /\ WF_vars(SyncStep)

\* ------------------------------------------------------------------ claims

Settled(tk) == tk.pc = "done"

\* How often `what` is in the log of a call.
CountIn(log, what) == Cardinality({i \in DOMAIN log : log[i] = what})

Count(tk, what) == CountIn(tk.log, what)

\* The requests to the backend store and to the provider in the log of a call.
Fetches(log) == CountIn(log, "backendGet") + CountIn(log, "fetch")

Has(tk, what) == Count(tk, what) > 0

\* (X, base) with X # base: the pair resolved through the three tiers.
IsBaseCase(tk) == tk.pc # "idle" /\ tk.from # BASE_CURRENCY /\ tk.to = BASE_CURRENCY

IsInverseCase(tk) == tk.pc # "idle" /\ tk.from = BASE_CURRENCY /\ tk.to # BASE_CURRENCY

IsCrossCase(tk) ==
    tk.pc # "idle" /\ tk.from # BASE_CURRENCY /\ tk.to # BASE_CURRENCY /\ tk.from # tk.to

Dates(series) == [i \in DOMAIN series |-> series[i].date]

DateSet(series) == {series[i].date : i \in DOMAIN series}

InBoth(fromToUsd, toToUsd) == DateSet(fromToUsd) \cap DateSet(toToUsd)

RateOn(series, date) == CHOOSE r \in {series[i] : i \in DOMAIN series} : r.date = date

\* C1: a call for a pair of identical currencies is fulfilled with the empty
\* series at once: it reads and writes no cache, asks neither backend nor
\* provider, leaves the call budget alone and makes no call of its own.
C1_SameCurrencyEmpty ==
    \A t \in TaskIds :
        LET tk == tasks[t]
        IN (tk.pc # "idle" /\ tk.from = tk.to) =>
              /\ tk.pc = "done"
              /\ tk.status = "fulfilled"
              /\ tk.result = <<>>
              /\ tk.log = <<>>
              /\ t = "root" => tasks["legFrom"].pc = "idle" /\ tasks["legTo"].pc = "idle"

C1_Witness ==
    /\ tasks["root"].pc = "done"
    /\ tasks["root"].from = "EUR"
    /\ tasks["root"].to = "EUR"
    /\ tasks["root"].forceRefresh
    /\ stored # Null

\* C2: the series returned for (base, X) is the series its leg resolved for
\* (X, base) with the same forceRefresh, record by record: same date,
\* open 1/open, high 1/low, low 1/high, close 1/close; an empty leg gives an
\* empty result.
C2_InverseElementwise ==
    LET tk == tasks["root"]
        leg == tasks["legFrom"]
    IN (IsInverseCase(tk) /\ Settled(tk) /\ leg.status = "fulfilled") =>
          /\ leg.from = tk.to /\ leg.to = BASE_CURRENCY
          /\ leg.forceRefresh = tk.forceRefresh
          /\ tk.status = "fulfilled"
          /\ Len(tk.result) = Len(leg.result)
          /\ \A i \in DOMAIN leg.result :
                /\ tk.result[i].date = leg.result[i].date
                /\ tk.result[i].open = Div(One, leg.result[i].open)
                /\ tk.result[i].high = Div(One, leg.result[i].low)
                /\ tk.result[i].low = Div(One, leg.result[i].high)
                /\ tk.result[i].close = Div(One, leg.result[i].close)

C2_Witness ==
    /\ IsInverseCase(tasks["root"])
    /\ Settled(tasks["root"])
    /\ Dates(tasks["root"].result) = <<1, 2, 3>>
    /\ tasks["root"].result[3].high = <<1, 1>>
    /\ tasks["root"].result[3].low = <<1, 4>>

\* C3: the series returned for a cross pair (X, Y) holds exactly the dates
\* that both legs hold, in the order of the X leg, and on each date
\* open = open_X/open_Y, high = high_X/low_Y, low = low_X/high_Y,
\* close = close_X/close_Y.
C3_CrossInnerJoin ==
    LET tk == tasks["root"]
        fromToUsd == tasks["legFrom"].result
        toToUsd == tasks["legTo"].result
    IN (IsCrossCase(tk) /\ Settled(tk) /\ tk.status = "fulfilled") =>
          /\ tasks["legFrom"].status = "fulfilled" /\ tasks["legTo"].status = "fulfilled"
          /\ tasks["legFrom"].from = tk.from /\ tasks["legTo"].from = tk.to
          /\ Dates(tk.result) =
                SelectSeq(Dates(fromToUsd), LAMBDA d : d \in DateSet(toToUsd))
          /\ \A i \in DOMAIN tk.result :
                LET x == RateOn(fromToUsd, tk.result[i].date)
                    y == RateOn(toToUsd, tk.result[i].date)
                IN /\ tk.result[i].open = Div(x.open, y.open)
                   /\ tk.result[i].high = Div(x.high, y.low)
                   /\ tk.result[i].low = Div(x.low, y.high)
                   /\ tk.result[i].close = Div(x.close, y.close)

C3_Witness ==
    /\ IsCrossCase(tasks["root"])
    /\ Settled(tasks["root"])
    /\ Dates(tasks["legFrom"].result) = <<1, 2, 3>>
    /\ Dates(tasks["legTo"].result) = <<2, 3, 4>>
    /\ Dates(tasks["root"].result) = <<2, 3>>

\* C4, as claimed: whenever a leg of a cross pair was rejected or gave an
\* empty series, the call is fulfilled with the empty series.
C4_Original ==
    LET tk == tasks["root"]
        Failed(leg) == \/ leg.status = "rejected"
                       \/ leg.status = "fulfilled" /\ leg.result = <<>>
    IN (IsCrossCase(tk) /\ Settled(tk)
            /\ (Failed(tasks["legFrom"]) \/ Failed(tasks["legTo"]))) =>
          tk.status = "fulfilled" /\ tk.result = <<>>

\* C4, amended: a cross pair is fulfilled only when both legs are, and then
\* with the empty series whenever a leg is empty (a non-empty result needs two
\* non-empty legs); when a leg is rejected the call is rejected with the error
\* of a rejected leg, not fulfilled with the empty series.
C4_BothLegsOrEmptyOrError ==
    LET tk == tasks["root"]
        fromToUsd == tasks["legFrom"]
        toToUsd == tasks["legTo"]
    IN (IsCrossCase(tk) /\ Settled(tk)) =>
          /\ tk.status = "fulfilled" =>
                /\ fromToUsd.status = "fulfilled" /\ toToUsd.status = "fulfilled"
                /\ (fromToUsd.result = <<>> \/ toToUsd.result = <<>>) => tk.result = <<>>
                /\ tk.result # <<>> => fromToUsd.result # <<>> /\ toToUsd.result # <<>>
          /\ (fromToUsd.status = "rejected" \/ toToUsd.status = "rejected") =>
                /\ tk.status = "rejected"
                /\ tk.error \in {leg.error : leg \in {l \in {fromToUsd, toToUsd} :
                                                          l.status = "rejected"}}
          /\ tk.status = "rejected" =>
                fromToUsd.status = "rejected" \/ toToUsd.status = "rejected"

C4_Witness ==
    /\ IsCrossCase(tasks["root"])
    /\ Settled(tasks["root"])
    /\ tasks["root"].status = "fulfilled"
    /\ tasks["root"].result = <<>>
    /\ tasks["legFrom"].result # <<>>
    /\ tasks["legTo"].status = "fulfilled"
    /\ tasks["legTo"].result = <<>>

\* C5: a call for (X, base) without forceRefresh that reads a non-empty
\* cached series returns exactly that series, having done nothing but the
\* cache read: no backend request, no provider call, no write to the cache or
\* to the call budget; the cached record is as it was read.
C5_CacheHit ==
    \A t \in TaskIds :
        LET tk == tasks[t]
        IN (IsBaseCase(tk) /\ Settled(tk) /\ ~tk.forceRefresh /\ HasStale(tk.cached)) =>
              /\ tk.status = "fulfilled"
              /\ tk.result = tk.cached[1].rates
              /\ tk.log = <<"cacheGet">>
              /\ currencyData[getPairKey(tk.from, tk.to)] = tk.cached

C5_Witness ==
    /\ IsBaseCase(tasks["root"])
    /\ Settled(tasks["root"])
    /\ ~tasks["root"].forceRefresh
    /\ HasStale(tasks["root"].cached)
    /\ Len(tasks["root"].result) = 3

\* C6: a call for (X, base) without forceRefresh that finds no non-empty
\* cached series and gets rows from the backend returns those rows (date,
\* open, high, low, close of each, in the backend's order); the cache then
\* holds them under X/base, so hasCachedData(X, base) is true; the provider is
\* not called and the call budget is not written.
C6_BackendAdopted ==
    \A t \in TaskIds :
        LET tk == tasks[t]
        IN (IsBaseCase(tk) /\ Settled(tk) /\ ~tk.forceRefresh
                /\ ~HasStale(tk.cached) /\ Len(tk.backendRates) > 0) =>
              /\ tk.status = "fulfilled"
              /\ Len(tk.result) = Len(tk.backendRates)
              /\ \A i \in DOMAIN tk.backendRates :
                    /\ tk.backendRates[i].from_currency = tk.from
                    /\ tk.backendRates[i].to_currency = tk.to
                    /\ tk.result[i].date = tk.backendRates[i].date
                    /\ tk.result[i].open = tk.backendRates[i].open
                    /\ tk.result[i].high = tk.backendRates[i].high
                    /\ tk.result[i].low = tk.backendRates[i].low
                    /\ tk.result[i].close = tk.backendRates[i].close
              /\ hasCachedData(tk.from, tk.to)
              /\ getCurrencyData(tk.from, tk.to)[1].rates = tk.result
              /\ tk.log = <<"cacheGet", "backendGet", "cachePut">>

C6_Witness ==
    /\ IsBaseCase(tasks["root"])
    /\ Settled(tasks["root"])
    /\ ~tasks["root"].forceRefresh
    /\ tasks["root"].cached = Null
    /\ Len(tasks["root"].backendRates) = 2
    /\ hasCachedData("EUR", BASE_CURRENCY)
    /\ stored # Null

\* C7, as claimed: a call for (X, base) without forceRefresh that repeats the
\* call that returned last (the cache not cleared in between) ends as that
\* call did and is nothing but a cache read, so that at most one of the two
\* calls requests anything of the backend or the provider, whatever the first
\* got.
C7_Original ==
    LET tk == tasks["root"]
    IN (IsBaseCase(tk) /\ Settled(tk) /\ ~tk.forceRefresh /\ lastReturned # Null) =>
          /\ tk.status = lastReturned[1].status
          /\ tk.result = lastReturned[1].result
          /\ tk.error = lastReturned[1].error
          /\ tk.log = <<"cacheGet">>
          /\ Fetches(lastReturned[1].log) = 0 \/ Fetches(tk.log) = 0

\* C7, amended: when the call that returned last returned a non-empty series,
\* its repetition returns the identical series and is nothing but a cache
\* read, so that the two calls together make no request beyond those of the
\* first: at most one to the backend and at most one to the provider.
C7_RepeatIsCacheHit ==
    LET tk == tasks["root"]
    IN (IsBaseCase(tk) /\ Settled(tk) /\ ~tk.forceRefresh /\ lastReturned # Null
            /\ lastReturned[1].status = "fulfilled" /\ lastReturned[1].result # <<>>) =>
          /\ tk.status = "fulfilled"
          /\ tk.result = lastReturned[1].result
          /\ tk.log = <<"cacheGet">>
          /\ CountIn(lastReturned[1].log \o tk.log, "backendGet") <= 1
          /\ CountIn(lastReturned[1].log \o tk.log, "fetch") <= 1

C7_Witness ==
    /\ IsBaseCase(tasks["root"])
    /\ Settled(tasks["root"])
    /\ lastReturned # Null
    /\ lastReturned[1].log = <<"cacheGet", "backendGet", "fetchFromApi", "fetch",
                               "recordApiCall", "cachePut", "backendPost">>
    /\ Len(lastReturned[1].result) = 3
    /\ tasks["root"].result = lastReturned[1].result
    /\ tasks["root"].log = <<"cacheGet">>

\* The errors fetchFromApi throws for what the provider answered.
ProviderErrors == {"http", "note", "provider"}

\* C8, as claimed: a call for (X, base) with forceRefresh invokes
\* fetchFromApi whatever the cache and the backend hold, sends the request
\* when the budget allows it, and is rejected with the budget error when the
\* budget is exhausted, also when a non-empty series is cached.
C8_ForcedRefreshOrBudgetError ==
    \A t \in TaskIds :
        LET tk == tasks[t]
        IN (IsBaseCase(tk) /\ Settled(tk) /\ tk.forceRefresh) =>
              /\ Has(tk, "fetchFromApi")
              /\ ~Has(tk, "backendGet")
              /\ tk.caught # "budget" => Has(tk, "fetch")
              /\ tk.caught = "budget" => tk.status = "rejected" /\ tk.error = "budget"

\* C9: when the provider answers a forced call for (X, base) with an error
\* and a non-empty series was cached, the call returns exactly the cached
\* series; it writes nothing to the cache, whose record is as it was read.
C9_StaleFallback ==
    \A t \in TaskIds :
        LET tk == tasks[t]
        IN (IsBaseCase(tk) /\ Settled(tk) /\ tk.forceRefresh
                /\ tk.caught \in ProviderErrors /\ HasStale(tk.cached)) =>
              /\ tk.status = "fulfilled"
              /\ tk.result = tk.cached[1].rates
              /\ ~Has(tk, "cachePut")
              /\ currencyData[getPairKey(tk.from, tk.to)] = tk.cached

C9_Witness ==
    /\ IsBaseCase(tasks["root"])
    /\ Settled(tasks["root"])
    /\ tasks["root"].forceRefresh
    /\ tasks["root"].caught = "note"
    /\ HasStale(tasks["root"].cached)
    /\ Dates(tasks["root"].cached[1].rates) = <<1, 2>>
    /\ tasks["root"].result = tasks["root"].cached[1].rates

\* C10: when fetchFromApi fails for (X, base) and no non-empty series was
\* cached, the call is rejected with that error (it is not fulfilled, with
\* the empty series or any other); a rejected leg rejects the inverse pair and
\* the cross pair built on it with the error of the leg.
C10_ErrorPropagates ==
    /\ \A t \in TaskIds :
          LET tk == tasks[t]
          IN (IsBaseCase(tk) /\ Settled(tk) /\ tk.caught # "" /\ ~HasStale(tk.cached)) =>
                tk.status = "rejected" /\ tk.error = tk.caught
    /\ LET tk == tasks["root"]
       IN (IsInverseCase(tk) /\ Settled(tk) /\ tasks["legFrom"].status = "rejected") =>
             tk.status = "rejected" /\ tk.error = tasks["legFrom"].error
    /\ LET tk == tasks["root"]
           rejected == {l \in {tasks["legFrom"], tasks["legTo"]} : l.status = "rejected"}
       IN (IsCrossCase(tk) /\ Settled(tk) /\ rejected # {}) =>
             tk.status = "rejected" /\ tk.error \in {l.error : l \in rejected}

C10_Witness ==
    /\ IsCrossCase(tasks["root"])
    /\ Settled(tasks["root"])
    /\ tasks["root"].status = "rejected"
    /\ tasks["root"].error = "http"
    /\ tasks["legTo"].caught = "http"
    /\ tasks["legTo"].cached = Null
    /\ tasks["legFrom"].status = "fulfilled"

\* A step in which the call enters fetchFromApi.
EntersFetchFromApi(t) ==
    Count(tasks'[t], "fetchFromApi") > Count(tasks[t], "fetchFromApi")

\* C11: when fetchFromApi is entered while the count stored for today has
\* reached the safe ceiling, it throws the budget error in that very step:
\* fetch(url) is not called, and the stored count and last-call time stay as
\* they were.
C11_BudgetExceededNoCall ==
    [][\A t \in TaskIds :
          (EntersFetchFromApi(t) /\ loadData.calls >= SAFE_LIMIT) =>
             /\ tasks'[t].caught = "budget"
             /\ tasks'[t].pc = "done"
             /\ tasks'[t].sentAt = Null
             /\ ~Has(tasks'[t], "fetch")
             /\ ~Has(tasks'[t], "recordApiCall")
             /\ stored' = stored]_vars

C11_Witness ==
    /\ IsBaseCase(tasks["root"])
    /\ tasks["root"].caught = "budget"
    /\ tasks["root"].status = "rejected"
    /\ tasks["root"].log = <<"cacheGet", "backendGet", "fetchFromApi">>
    /\ stored # Null
    /\ stored[1].date = today
    /\ stored[1].calls = SAFE_LIMIT

\* C12, as claimed: the count stored for today never exceeds the safe
\* ceiling, however the calls in flight interleave.
C12_CountWithinCeiling == loadData.calls <= SAFE_LIMIT

\* C13, as claimed: any two requests that the calls of one resolution send to
\* the provider are sent at least the minimum interval apart, also when they
\* are in flight at the same time.
C13_RequestsIntervalApart ==
    \A t1 \in TaskIds, t2 \in TaskIds :
        (t1 # t2 /\ tasks[t1].sentAt # Null /\ tasks[t2].sentAt # Null) =>
           \/ tasks[t1].sentAt[1] - tasks[t2].sentAt[1] >= MinIntervalMs
           \/ tasks[t2].sentAt[1] - tasks[t1].sentAt[1] >= MinIntervalMs

\* C14, as claimed: canCallNow() is true exactly when the count for today is
\* below the safe ceiling and the minimum interval has passed since the last
\* recorded call.
C14_CanCallNowIff ==
    canCallNow <=> (loadData.calls < SAFE_LIMIT /\ now - loadData.lastCall >= MinIntervalMs)

\* C17: whenever the stored date differs from today's, the budget operations
\* behave as if nothing had been counted: canMakeApiCall() is true,
\* getRemainingCalls() is the ceiling, getCallsToday() is 0, and what
\* recordApiCall() stores is count 1 under today's date.
C17_NewDayCountsFromZero ==
    (stored # Null /\ stored[1].date # today) =>
       /\ canMakeApiCall
       /\ getRemainingCalls = SAFE_LIMIT
       /\ getCallsToday = 0
       /\ RecordedData = [date |-> today, calls |-> 1, lastCall |-> now]

C17_Witness ==
    /\ stored # Null
    /\ stored[1].date # today
    /\ stored[1].calls >= SAFE_LIMIT
    /\ canMakeApiCall
    /\ getRemainingCalls = SAFE_LIMIT

\* C15, as claimed: every request fetchFromApi has sent and seen the end of
\* is recorded against the budget, whatever became of it: a series, a status
\* that is not OK, a Note, an Error Message, or the request itself failing.
C15_EveryRequestRecorded ==
    \A t \in TaskIds :
        (tasks[t].sentAt # Null /\ tasks[t].response # Null) =>
           /\ Has(tasks[t], "recordApiCall")
           /\ stored # Null
           /\ stored[1].lastCall >= tasks[t].sentAt[1]

\* C16: when a response arrives, fetchFromApi throws an error of its own kind
\* for a status that is not OK, for a body with a Note and for a body with an
\* Error Message, and the caller then writes nothing to the cache, whose
\* record for the pair stays as it was read; for any other response it
\* returns the series parsed from the body.
C16_ProviderErrorsThrown ==
    \A t \in TaskIds :
        LET tk == tasks[t]
        IN (tk.response # Null /\ ~tk.response[1].rejected) =>
              LET out == tk.response[1]
                  isNote == "Note" \in DOMAIN out.data
                  isError == "Error Message" \in DOMAIN out.data
              IN /\ ~out.ok => tk.caught = "http"
                 /\ (out.ok /\ isNote) => tk.caught = "note"
                 /\ (out.ok /\ ~isNote /\ isError) => tk.caught = "provider"
                 /\ (~out.ok \/ isNote \/ isError) =>
                       /\ tk.pc = "done"
                       /\ ~Has(tk, "cachePut")
                       /\ currencyData[getPairKey(tk.from, tk.to)] = tk.cached
                 /\ (out.ok /\ ~isNote /\ ~isError) =>
                       /\ tk.caught = ""
                       /\ tk.rates = parseRates(out.data)

C16_Witness ==
    /\ IsBaseCase(tasks["root"])
    /\ tasks["root"].response # Null
    /\ tasks["root"].response[1].ok
    /\ "Error Message" \in DOMAIN tasks["root"].response[1].data
    /\ tasks["root"].status = "rejected"
    /\ tasks["root"].error = "provider"
    /\ currencyData[getPairKey(tasks["root"].from, tasks["root"].to)] = Null

RowsOf(table, from, to, rates) ==
    {row \in table : /\ row.from_currency = from
                     /\ row.to_currency = to
                     /\ row.date \in DateSet(rates)}

\* C19: the series fetchFromApi returned is written to the cache under the
\* pair; a non-empty one is then sent to the backend, and when that request
\* ends the call returns the series, the cache still holding it, whether the
\* backend saved it (its rows for the pair and the dates of the series are
\* then exactly the series, its other rows kept) or not (the table is as it
\* was).
C19_PersistedAndReturned ==
    [][\A t \in TaskIds :
          LET tk == tasks[t]
              key == getPairKey(tk.from, tk.to)
              sent == {ExchangeRateRecord(tk.from, tk.to, tk.rates[i]) : i \in DOMAIN tk.rates}
          IN /\ (tk.pc = "apiPut" /\ tasks'[t].pc # "apiPut") =>
                   /\ tk.rates = parseRates(tk.response[1].data)
                   /\ currencyData' = [currencyData EXCEPT ![key] = Some([rates |-> tk.rates])]
                   /\ IF tk.rates = <<>>
                      THEN tasks'[t].status = "fulfilled" /\ tasks'[t].result = <<>>
                      ELSE tasks'[t].pc = "backendPost"
             /\ (tk.pc = "backendPost" /\ tasks'[t].pc # "backendPost") =>
                   /\ tasks'[t].status = "fulfilled"
                   /\ tasks'[t].result = tk.rates
                   /\ tk.rates = parseRates(tk.response[1].data)
                   /\ currencyData[key] = Some([rates |-> tk.rates])
                   /\ currencyData' = currencyData
                   /\ \/ exchange_rates' = exchange_rates
                      \/ /\ RowsOf(exchange_rates', tk.from, tk.to, tk.rates) = sent
                         /\ exchange_rates' \ sent =
                               exchange_rates \ RowsOf(exchange_rates, tk.from, tk.to, tk.rates)]_vars

\* The backend did not save the series, and the call returned it all the same.
C19_Witness ==
    /\ IsBaseCase(tasks["root"])
    /\ tasks["root"].status = "fulfilled"
    /\ tasks["root"].log = <<"cacheGet", "backendGet", "fetchFromApi", "fetch",
                             "recordApiCall", "cachePut", "backendPost">>
    /\ Len(tasks["root"].result) = 3
    /\ getCurrencyData(tasks["root"].from, tasks["root"].to) = Some([rates |-> tasks["root"].result])
    /\ Len(SelectRates(tasks["root"].from, tasks["root"].to)) = 2
    /\ exchange_rates # {}

\* C20: when saveCurrencyData(from, to, rates) completes, the record read
\* back for from/to holds exactly rates, whatever was stored before; the
\* record of every other key, that of to/from included, and the batch marker
\* are as they were.
C20_SaveReplacesSeries ==
    [][\A t \in TaskIds :
          LET tk == tasks[t]
              key == getPairKey(tk.from, tk.to)
          IN (tk.pc \in {"adoptPut", "apiPut"} /\ tasks'[t].pc # tk.pc) =>
                /\ currencyData'[key] # Null
                /\ currencyData'[key][1].rates = tk.rates
                /\ \A k \in PairKeys \ {key} : currencyData'[k] = currencyData[k]
                /\ currencyData'[getPairKey(tk.to, tk.from)] = currencyData[getPairKey(tk.to, tk.from)]
                /\ metadata' = metadata]_vars

\* A forced call that read two rows from the cache and left three in it.
C20_Witness ==
    /\ IsBaseCase(tasks["root"])
    /\ Settled(tasks["root"])
    /\ HasStale(tasks["root"].cached)
    /\ Dates(tasks["root"].cached[1].rates) = <<1, 2>>
    /\ Has(tasks["root"], "cachePut")
    /\ hasCachedData(tasks["root"].from, tasks["root"].to)
    /\ Dates(getCurrencyData(tasks["root"].from, tasks["root"].to)[1].rates) = <<1, 2, 3>>
    /\ getCurrencyData(tasks["root"].to, tasks["root"].from) = Null

\* C28, as claimed: a call for a cross pair settles, fulfilled or rejected,
\* only when both of its legs have settled, and a series it returns is built
\* from the series of both.
C28_BothLegsSettledFirst ==
    LET tk == tasks["root"]
    IN (IsCrossCase(tk) /\ Settled(tk)) =>
          /\ Settled(tasks["legFrom"])
          /\ Settled(tasks["legTo"])
          /\ tk.status = "fulfilled" =>
                tk.result = IF tasks["legFrom"].result = <<>> \/ tasks["legTo"].result = <<>>
                            THEN <<>>
                            ELSE calculateCrossRate(tasks["legFrom"].result,
                                                    tasks["legTo"].result)

\* The calls onProgress has received when the loop is through with the
\* first n currencies of order.
ProgressUpTo(order, n) == [k \in 1..n |-> <<k, Len(order), order[k]>>]

\* C21: a forced prefetchBasePairs calls fetchFromApi for the currencies of
\* FETCH_CURRENCIES one after another in list order, whatever the cache and
\* the batch marker hold, and calls onProgress once after each with current
\* = 1, 2, ..., total and total = the number of currencies; when it returns
\* it has gone through them all.
C21_ForcedBatchCallsAll ==
    (job.op = "prefetchBasePairs" /\ job.forceRefresh) =>
       /\ job.adapter = SubSeq(FETCH_CURRENCIES, 1, Len(job.adapter))
       /\ job.progress = ProgressUpTo(FETCH_CURRENCIES, Len(job.progress))
       /\ Len(job.progress) \in {Len(job.adapter) - 1, Len(job.adapter)}
       /\ job.pc = "done" =>
             /\ job.adapter = FETCH_CURRENCIES
             /\ Len(job.progress) = Len(FETCH_CURRENCIES)

\* A forced batch has returned although the marker was set and the cache
\* filled by the batch before it.
C21_Witness ==
    /\ job.op = "prefetchBasePairs" /\ job.forceRefresh /\ job.pc = "done"
    /\ job.failed > 0
    /\ metadata = Some(today)
    /\ \A k \in DOMAIN FETCH_CURRENCIES : hasCachedData(FETCH_CURRENCIES[k], BASE_CURRENCY)
    /\ job.adapter = FETCH_CURRENCIES

\* C22: the batch marker changes only when a batch refresh that has gone
\* through every currency without a failure completes, and then to today's
\* date; a batch with a failure, a background sync and a backend prefetch
\* leave it as it is.
C22_MarkerSetByCleanBatchOnly ==
    [][metadata' # metadata =>
          /\ job.op = "prefetchBasePairs"
          /\ job.failed = 0
          /\ job.success = Len(FETCH_CURRENCIES)
          /\ job'.pc = "done"
          /\ metadata' = Some(today)]_vars

\* A batch without a failure has set the marker which was not set before;
\* every fetch of the batch was sent to the provider.
C22_Witness ==
    /\ job.op = "prefetchBasePairs" /\ job.pc = "done"
    /\ job.failed = 0
    /\ job.adapter = FETCH_CURRENCIES
    /\ metadata = Some(today)

\* C23: an error thrown by fetchFromApi for a currency of a batch refresh,
\* for want of budget or by the provider's answer, is counted as one failure
\* and the loop goes on: a batch that has returned has called fetchFromApi
\* for every currency, has counted as failed exactly the currencies the
\* fetch threw for and as successful the others, and has returned the two
\* counts, which add up to the number of currencies.
C23_FailureDoesNotAbort ==
    (job.op = "prefetchBasePairs" /\ job.pc = "done") =>
       /\ job.returned # Null
       /\ job.returned[1].success + job.returned[1].failed = Len(FETCH_CURRENCIES)
       /\ Len(job.progress) > 0 =>
             /\ job.adapter = FETCH_CURRENCIES
             /\ job.returned[1].failed = Len(job.errors)
             /\ job.returned[1].failed =
                   Cardinality({job.errors[k][1] : k \in DOMAIN job.errors})

\* A batch has returned after the provider failed for its first currency
\* and the budget ran out before its last.
C23_Witness ==
    /\ job.op = "prefetchBasePairs" /\ job.pc = "done"
    /\ \E k \in DOMAIN job.errors : job.errors[k][2] = "budget"
    /\ \E k \in DOMAIN job.errors : job.errors[k][2] \in {"http", "note", "provider"}
    /\ job.success > 0

\* C24, as claimed: a batch refresh that finds the batch marker at today's
\* date calls the provider for no currency, leaves the call budget and the
\* cache as they are, and returns success = the number of currencies and
\* failed = 0.
C24_Original ==
    [][(job'.op = "prefetchBasePairs" /\ job.pc # "done" /\ metadata = Some(today)) =>
          /\ job'.adapter = <<>>
          /\ stored' = stored
          /\ currencyData' = currencyData
          /\ job'.pc = "done" =>
                job'.returned = Some([success |-> Len(FETCH_CURRENCIES), failed |-> 0])]_vars

\* C24, amended: the same of a batch refresh called without forceRefresh.
C24_ShortCircuitUnlessForced ==
    [][(/\ job'.op = "prefetchBasePairs" /\ job.pc # "done" /\ metadata = Some(today)
        /\ ~job'.forceRefresh) =>
          /\ job'.adapter = <<>>
          /\ stored' = stored
          /\ currencyData' = currencyData
          /\ job'.pc = "done" =>
                job'.returned = Some([success |-> Len(FETCH_CURRENCIES), failed |-> 0])]_vars

\* A batch refresh without forceRefresh has found the marker set and has
\* returned, with budget left for a call.
C24_Witness ==
    /\ job.op = "prefetchBasePairs" /\ ~job.forceRefresh /\ job.pc = "done"
    /\ metadata = Some(today)
    /\ job.adapter = <<>>
    /\ canMakeApiCall
    /\ job.returned = Some([success |-> Len(FETCH_CURRENCIES), failed |-> 0])

\* C25: no step of a background sync calls fetchFromApi or changes the
\* call budget in localStorage, whatever the cache and the backend hold,
\* however the backend answers and whichever currency has priority; of the
\* backend it only reads.
C25_SyncNeverCallsProvider ==
    [][(job.op = "backgroundSyncFromBackend" \/ job'.op = "backgroundSyncFromBackend") =>
          /\ job'.adapter = <<>>
          /\ stored' = stored
          /\ exchange_rates' = exchange_rates]_vars

\* A background sync with a priority currency has finished: it asked the
\* backend for every currency, adopted the series the backend had and failed
\* for the others, with budget left for a call to the provider.
C25_Witness ==
    /\ job.op = "backgroundSyncFromBackend" /\ job.pc = "done"
    /\ job.order[1] = "JPY"
    /\ Len(job.requests) = Len(job.order)
    /\ job.totalRecords > 0
    /\ job.failed > 0
    /\ canMakeApiCall

\* C26: in a background sync, a currency whose pair with the base currency
\* has a non-empty series in the cache is passed over: no request goes to
\* the backend for it, the cache stays as it is and success is incremented;
\* a currency for which the request to the backend yields no rows, because
\* the table has none or the request fails, increments failed and the cache
\* stays as it is.
C26_SkipCachedFailEmpty ==
    [][job.op = "backgroundSyncFromBackend" =>
          /\ (job.pc = "hasData" /\ hasCachedData(Currency(job), BASE_CURRENCY)) =>
                /\ job'.requests = job.requests
                /\ currencyData' = currencyData
                /\ job'.success = job.success + 1
                /\ job'.failed = job.failed
          /\ (job.pc = "backendGet" /\ SelectRates(Currency(job), BASE_CURRENCY) = <<>>) =>
                job'.pc # "syncPut"
          /\ (job.pc = "backendGet" /\ job'.pc # "syncPut") =>
                /\ currencyData' = currencyData
                /\ job'.failed = job.failed + 1
                /\ job'.success = job.success]_vars

\* A background sync has finished that passed over the pairs in the cache
\* and failed for all the others.
C26_Witness ==
    /\ job.op = "backgroundSyncFromBackend" /\ job.pc = "done"
    /\ job.success > 0
    /\ job.totalRecords = 0
    /\ job.failed > 0
    /\ Len(job.requests) = job.failed
    /\ \E k \in DOMAIN job.order :
          /\ hasCachedData(job.order[k], BASE_CURRENCY)
          /\ \A q \in DOMAIN job.requests : job.requests[q] # job.order[k]

\* C27: backgroundSyncFromBackend has returned to its caller from its first
\* await on, whatever the loop comes to; it calls onComplete at most once,
\* after the loop, with success + failed = the number of currencies; and a
\* background sync that has been started calls onComplete in the end.
C27_SyncCompletesOnce ==
    /\ [](job.op = "backgroundSyncFromBackend" =>
             /\ job.returned = Some("void")
             /\ Len(job.completed) <= 1
             /\ Len(job.completed) = 1 <=> job.pc = "done"
             /\ Len(job.completed) = 1 =>
                   job.completed[1].success + job.completed[1].failed
                      = Len(FETCH_CURRENCIES))
    /\ (job.op = "backgroundSyncFromBackend")
          ~> (job.op = "backgroundSyncFromBackend" /\ Len(job.completed) = 1)

\* A background sync has called onComplete, with successes and failures.
C27_Witness ==
    /\ job.op = "backgroundSyncFromBackend"
    /\ job.returned = Some("void")
    /\ Len(job.completed) = 1
    /\ job.completed[1].success > 0
    /\ job.completed[1].failed > 0

\* C29, as claimed: when handleRefresh is through, nothing of it is in
\* flight any more, and no call of fetchFromApi was refused for want of
\* budget or failed otherwise, the count of provider calls in localStorage
\* has gone up by 8, whichever pair the view shows.
C29_RefreshConsumesEight ==
    (/\ job.caller = "handleRefresh"
     /\ job.pc = "refreshed"
     /\ \A t \in TaskIds : tasks[t].pc \in {"idle", "done"}
     /\ job.errors = <<>>
     /\ \A t \in TaskIds : tasks[t].caught = "") =>
       getCallsToday - job.callsBefore = Len(FETCH_CURRENCIES)

\* The calls of saveRatesToBackend made for the pair at p of cachedPairs.
Sent(p) == {k \in DOMAIN job.chunks : job.chunks[k].pair = p}

\* The series of the pair at p went through to its last record.
Uploaded(p) ==
    \E k \in Sent(p) : /\ job.chunks[k].hi = Len(job.pairs[p].rates)
                       /\ job.chunks[k].saved = TRUE

\* A save for the pair at p failed.
SaveFailed(p) == \E k \in Sent(p) : job.chunks[k].saved = FALSE

RECURSIVE RecordsIn(_)
RecordsIn(ps) ==
    IF ps = {} THEN 0
    ELSE LET p == CHOOSE q \in ps : TRUE
         IN Len(job.pairs[p].rates) + RecordsIn(ps \ {p})

\* C30: syncAllCachedDataToBackend sends each non-empty series of the cache
\* in slices of at most 500 records, the first from the first record, each
\* further one from where the one before ended and only after that one was
\* saved, pair after pair; when it returns after a successful probe, every
\* non-empty series either went through to its last record, all its rows
\* being in the table, and is counted as a success, or had one save fail,
\* was left at that and is counted as failed, and a save was attempted for
\* each of them; after a failed probe nothing was sent and failed is the
\* number of pairs in the cache.
C30_UploadInChunks ==
    job.op = "syncAllCachedDataToBackend" =>
       /\ \A k \in DOMAIN job.chunks :
             LET c == job.chunks[k]
             IN /\ c.hi - c.lo + 1 \in 1..BATCH_SIZE
                /\ c.hi <= Len(job.pairs[c.pair].rates)
                /\ IF k > 1 /\ job.chunks[k - 1].pair = c.pair
                   THEN c.lo = job.chunks[k - 1].hi + 1 /\ job.chunks[k - 1].saved = TRUE
                   ELSE c.lo = 1
                /\ k > 1 => job.chunks[k - 1].pair <= c.pair
       /\ (job.pc = "done" /\ job.available = Some(TRUE)) =>
             LET nonEmpty == {p \in DOMAIN job.pairs : Len(job.pairs[p].rates) > 0}
                 uploaded == {p \in nonEmpty : Uploaded(p)}
                 failed == {p \in nonEmpty : SaveFailed(p)}
             IN /\ \A p \in DOMAIN job.pairs : Sent(p) # {} <=> p \in nonEmpty
                /\ uploaded \cup failed = nonEmpty
                /\ uploaded \cap failed = {}
                /\ \A p \in uploaded : \A i \in DOMAIN job.pairs[p].rates :
                      ExchangeRateRecord(job.pairs[p].from, job.pairs[p].to,
                                         job.pairs[p].rates[i]) \in exchange_rates
                /\ job.returned = Some([success |-> Cardinality(uploaded),
                                        failed |-> Cardinality(failed),
                                        totalRecords |-> RecordsIn(uploaded)])
       /\ (job.pc = "done" /\ job.available = Some(FALSE)) =>
             /\ job.chunks = <<>>
             /\ job.returned = Some([success |-> 0, failed |-> Len(job.pairs),
                                     totalRecords |-> 0])

\* An upload has returned that sent a series longer than one slice in two
\* slices, and had the save for another pair fail.
C30_Witness ==
    /\ job.op = "syncAllCachedDataToBackend" /\ job.pc = "done"
    /\ \E k \in DOMAIN job.chunks :
          /\ k > 1
          /\ job.chunks[k].pair = job.chunks[k - 1].pair
          /\ job.chunks[k - 1].hi = BATCH_SIZE
          /\ job.chunks[k].saved = TRUE
          /\ job.chunks[k].hi = LongRows
    /\ \E k \in DOMAIN job.chunks : job.chunks[k].saved = FALSE
    /\ job.returned[1].success = 1
    /\ job.returned[1].failed = 1

\* C38: a background sync goes through the currencies of FETCH_CURRENCIES,
\* each once: the priority currency first and the others after it in list
\* order when one is given that is not the base currency, in list order
\* when none is given or the base currency is; when the sync is through it
\* has visited them all.
C38_PriorityFirstEachOnce ==
    job.op = "backgroundSyncFromBackend" =>
       LET given == job.priorityCurrency # Null /\ job.priorityCurrency[1] # BASE_CURRENCY
           rest == SelectSeq(FETCH_CURRENCIES, LAMBDA c : c # job.priorityCurrency[1])
           expected == IF given THEN <<job.priorityCurrency[1]>> \o rest
                       ELSE FETCH_CURRENCIES
       IN /\ job.visited = SubSeq(expected, 1, Len(job.visited))
          /\ Len(expected) = Len(FETCH_CURRENCIES)
          /\ \A k \in DOMAIN FETCH_CURRENCIES :
                Cardinality({q \in DOMAIN expected : expected[q] = FETCH_CURRENCIES[k]}) = 1
          /\ job.pc = "done" => job.visited = expected

\* A background sync with priority for JPY is through.
C38_Witness ==
    /\ job.op = "backgroundSyncFromBackend" /\ job.pc = "done"
    /\ job.priorityCurrency = Some("JPY")
    /\ job.visited[1] = "JPY"
    /\ job.visited[2] = "EUR"
    /\ Len(job.visited) = Len(FETCH_CURRENCIES)

\* The five ways a call for a pair (X, base) ends.
ReturnedCached(tk) ==
    /\ tk.status = "fulfilled" /\ tk.log = <<"cacheGet">>
    /\ ~tk.forceRefresh /\ HasStale(tk.cached) /\ tk.result = tk.cached[1].rates

ReturnedAdopted(tk) ==
    /\ tk.status = "fulfilled" /\ tk.log = <<"cacheGet", "backendGet", "cachePut">>
    /\ Len(tk.backendRates) > 0 /\ tk.result = ToDailyRates(tk.backendRates)

ReturnedFetched(tk) ==
    /\ tk.status = "fulfilled" /\ tk.caught = ""
    /\ Count(tk, "recordApiCall") = 1 /\ Has(tk, "cachePut")
    /\ tk.response # Null
    /\ tk.rates = parseRates(tk.response[1].data) /\ tk.result = tk.rates

ReturnedStale(tk) ==
    /\ tk.status = "fulfilled" /\ tk.caught # ""
    /\ HasStale(tk.cached) /\ tk.result = tk.cached[1].rates

Raised(tk) == tk.status = "rejected" /\ tk.caught # "" /\ tk.error = tk.caught

Ways(tk) ==
    {w \in {"cached", "adopted", "fetched", "stale", "raised"} :
        CASE w = "cached" -> ReturnedCached(tk)
          [] w = "adopted" -> ReturnedAdopted(tk)
          [] w = "fetched" -> ReturnedFetched(tk)
          [] w = "stale" -> ReturnedStale(tk)
          [] w = "raised" -> Raised(tk)}

\* C31: where whatever a call awaits settles, a call of getCurrencyPairData
\* for a pair (X, base) settles, and has then ended in exactly one of five
\* ways: the cached series returned, the series of the backend adopted into
\* the cache and returned, the series fetched from the provider stored and
\* returned, the stale cached series returned after the fetch failed, or
\* the error thrown; and the calls a call for an inverse or a cross pair
\* makes of itself are calls for pairs (X, base), which make none.
C31_BaseCaseSettlesOneWay ==
    /\ [](\A t \in TaskIds :
             (IsBaseCase(tasks[t]) /\ Settled(tasks[t])) =>
                Cardinality(Ways(tasks[t])) = 1)
    /\ [](\A t \in {"legFrom", "legTo"} :
             tasks[t].pc # "idle" =>
                /\ tasks[t].from # BASE_CURRENCY
                /\ tasks[t].to = BASE_CURRENCY
                /\ tasks[t].pc \notin {"awaitInverse", "awaitCross"})
    /\ \A t \in TaskIds :
          (tasks[t].pc # "idle") ~> (tasks[t].pc = "done")

\* A forced call for a cached pair has returned the stale series after the
\* provider failed, as a leg of a call for a cross pair whose other leg
\* fetched its series.
C31_Witness ==
    /\ IsCrossCase(tasks["root"]) /\ Settled(tasks["root"])
    /\ Ways(tasks["legFrom"]) = {"stale"}
    /\ Ways(tasks["legTo"]) = {"fetched"}

\* ------------------------------------------- every writer of the cache

\* The page in use: resolutions of the pair on display and of its inverse,
\* with the cache cleared in between, then a batch refresh or a background
\* synchronisation. The backend holds rows for EUR and JPY; the budget lets
\* one batch through.
AppInit ==
    /\ currencyData = [k \in PairKeys |-> Null]
    /\ metadata = Null
    /\ stored = Some([date |-> 1, calls |-> SAFE_LIMIT - Len(FETCH_CURRENCIES),
                       lastCall |-> MinIntervalMs \div 2])
    /\ exchange_rates = SeedRows("EUR") \cup SeedRows("JPY")
    /\ now = MinIntervalMs
    /\ today = 1
    /\ tasks = [t \in TaskIds |-> IdleTask]
    /\ lastReturned = Null
    /\ job = IdleJob

AppNext ==
    \/ \E view \in {<<"EUR", BASE_CURRENCY>>, <<BASE_CURRENCY, "EUR">>}, forceRefresh \in BOOLEAN :
          job.pc = "idle" /\ Call(view[1], view[2], forceRefresh)
    \/ \E t \in TaskIds : CacheGetDone(t)
    \/ \E t \in TaskIds, outcome \in BackendOutcomes : BackendGetDone(t, outcome)
    \/ \E t \in TaskIds : AdoptPutDone(t)
    \/ AwaitTimer
    \/ \E t \in TaskIds : TimerFire(t)
    \/ \E t \in TaskIds : \E out \in FetchOutcomes(tasks[t].from) : ApiFetchDone(t, out)
    \/ \E t \in TaskIds : ApiPutDone(t)
    \/ \E t \in TaskIds, saved \in BOOLEAN : BackendPostDone(t, saved)
    \/ \E t \in TaskIds : InverseDone(t)
    \/ Return
    \/ job.pc = "idle" /\ clearCache
    \/ \E forceRefresh \in BOOLEAN : prefetchBasePairs(forceRefresh)
    \/ MarkerRead
    \/ BatchTimerFire
    \/ \E out \in FetchOutcomes(Currency(job)) : BatchFetchDone(out)
    \/ BatchPutDone
    \/ MarkDone
    \/ \E priorityCurrency \in {Null, Some("JPY")} :
          backgroundSyncFromBackend(priorityCurrency)
    \/ HasDataDone
    \/ \E outcome \in BackendOutcomes : SyncBackendGetDone(outcome)
    \/ SyncPutDone

AppSpec == AppInit /\ [][AppNext]_vars

\* The dates of the series ascend strictly: no date comes twice.
Ascending(series) ==
    \A i \in DOMAIN series : \A k \in DOMAIN series :
        i < k => series[i].date < series[k].date

\* The series the cache holds for a pair, <<>> when it holds none.
CachedRates(from, to) ==
    IF getCurrencyData(from, to) = Null THEN <<>> ELSE getCurrencyData(from, to)[1].rates

\* C32: every series the local cache holds is strictly ascending by date,
\* without a date twice, whether a resolution wrote it after a fetch from the
\* provider or after adopting the rows of the backend, or a batch refresh or
\* a background synchronisation did.
C32_CachedSeriesAscending ==
    \A key \in PairKeys : Ascending(CachedRates(key[1], key[2]))

\* A resolution has stored the provider's series for EUR, which the provider
\* sent newest day first, and a synchronisation has run to its end and stored
\* the rows of the backend for JPY.
C32_Witness ==
    /\ job.op = "backgroundSyncFromBackend"
    /\ job.pc = "done"
    /\ Len(CachedRates("EUR", BASE_CURRENCY)) = 3
    /\ CachedRates("JPY", BASE_CURRENCY) = SeedSeries("JPY")

\* X/base with X # base: the pairs kept relative to the pivot currency.
PivotPair(from, to) == to = BASE_CURRENCY /\ from # BASE_CURRENCY

\* The call has asked the backend or the provider, or written the cache or
\* the backend, or is about to.
ReachesBeyond(tk) ==
    \/ \E what \in {"backendGet", "fetchFromApi", "fetch", "cachePut", "backendPost"} :
          Has(tk, what)
    \/ tk.pc \in {"backendGet", "adoptPut", "apiWait", "apiFetch", "apiPut", "backendPost"}

\* C33: whatever resolutions, batch refreshes and synchronisations have run,
\* only pairs X/base with X # base are asked of the provider or the backend
\* and only their keys are written to the cache (and to the backend); a call
\* for an inverse or a cross pair derives its series and stores nothing.
C33_OnlyPivotPairsStored ==
    /\ \A key \in PairKeys : currencyData[key] # Null => PivotPair(key[1], key[2])
    /\ \A row \in exchange_rates : PivotPair(row.from_currency, row.to_currency)
    /\ \A t \in TaskIds : ReachesBeyond(tasks[t]) => PivotPair(tasks[t].from, tasks[t].to)
    /\ \A i \in DOMAIN job.adapter : job.adapter[i] # BASE_CURRENCY
    /\ \A i \in DOMAIN job.requests : job.requests[i] # BASE_CURRENCY
    /\ job.pc \in {"apiWait", "apiFetch", "apiPut", "backendGet", "syncPut"}
          => Currency(job) # BASE_CURRENCY

\* A call for the inverse pair USD/EUR has been fulfilled with a series its
\* own call for EUR/USD fetched and stored: the cache holds the series of
\* EUR/USD and none for USD/EUR.
C33_Witness ==
    /\ IsInverseCase(tasks["root"])
    /\ tasks["root"].status = "fulfilled"
    /\ tasks["root"].result # <<>>
    /\ Has(tasks["legFrom"], "fetch")
    /\ Has(tasks["legFrom"], "cachePut")
    /\ CachedRates("EUR", BASE_CURRENCY) # <<>>
    /\ CachedRates(BASE_CURRENCY, "EUR") = <<>>

\* What came back from the provider is no series: the request was rejected,
\* the status is not OK, or the body carries a notice or an error message.
FailedResponse(out) ==
    \/ out.rejected
    \/ ~out.ok
    \/ "Note" \in DOMAIN out.data
    \/ "Error Message" \in DOMAIN out.data

\* fetchFromApi throws in this step, in a call of getCurrencyPairData.
FetchFailsIn(t) == tasks[t].pc # "idle" /\ tasks[t].caught = "" /\ tasks'[t].caught # ""

\* The errors fetchFromApi throws in this step, in the batch refresh.
BatchFailures ==
    IF Len(job'.errors) > Len(job.errors)
    THEN {job'.errors[i] : i \in (Len(job.errors) + 1)..Len(job'.errors)}
    ELSE {}

\* C34: a fetch from the provider that fails (the budget is used up, the
\* request is rejected, the status is not OK, the body carries a notice or an
\* error message) is thrown as an error, in a resolution and in a batch
\* refresh alike, and the step in which it fails leaves the cached series of
\* its pair, those of all other pairs and the batch marker as they were; a
\* resolution that failed finds its pair cached as it read it before.
C34_FailedFetchWritesNothing ==
    /\ [][/\ \A t \in TaskIds :
                FetchFailsIn(t) => currencyData' = currencyData /\ metadata' = metadata
          /\ BatchFailures # {} =>
                /\ metadata' = metadata
                /\ job.pc # "apiPut" => currencyData' = currencyData
                /\ \A e \in BatchFailures :
                      currencyData'[getPairKey(e[1], BASE_CURRENCY)]
                         = currencyData[getPairKey(e[1], BASE_CURRENCY)]]_vars
    /\ [](\A t \in TaskIds :
             LET tk == tasks[t]
             IN /\ tk.response # Null /\ FailedResponse(tk.response[1]) => tk.caught # ""
                /\ tk.caught # "" =>
                      /\ ~Has(tk, "cachePut")
                      /\ getCurrencyData(tk.from, tk.to) = tk.cached)

\* A batch refresh has run to its end; its fetch for EUR was answered with
\* the provider's notice, the one for GBP with a series, and the cache still
\* holds for EUR the rows an earlier resolution adopted from the backend.
C34_Witness ==
    /\ job.op = "prefetchBasePairs"
    /\ job.pc = "done"
    /\ <<"EUR", "note">> \in {job.errors[i] : i \in DOMAIN job.errors}
    /\ CachedRates("EUR", BASE_CURRENCY) = SeedSeries("EUR")
    /\ CachedRates("GBP", BASE_CURRENCY) # <<>>
    /\ metadata = Null

\* C35: once the cache holds a series with records for a pair, no step of a
\* resolution, forced or not, of a batch refresh or of a synchronisation
\* leaves it with an empty series or none: only clearCache, which empties
\* the whole store, makes hasCachedData of the pair false again.
C35_NonEmptySeriesKept ==
    [][\A key \in PairKeys :
          (CachedRates(key[1], key[2]) # <<>> /\ ~hasCachedData(key[1], key[2])')
             => currencyData' = [k \in PairKeys |-> Null]]_vars

\* The response to the request of a call arrives.
Responded(tk) == tk.response # Null /\ ~tk.response[1].rejected

\* The calls of getCurrencyPairData whose response arrives in this step.
RespondingTasks == {t \in TaskIds : ~Responded(tasks[t]) /\ Responded(tasks[t])'}

\* The response to the request of the batch refresh arrives in this step.
BatchResponding ==
    /\ job.pc = "apiFetch"
    /\ job' # job
    /\ \A e \in BatchFailures : e[2] # "network"

\* C36: on one day and without a reset, the stored count goes up by one in
\* every step in which the response to a request to the provider arrives and
\* in no other step, however many requests are in flight at the time; every
\* call has recorded one call for the response it got and none before.
C36_CountEqualsResponses ==
    /\ [][loadData.calls' = loadData.calls + Cardinality(RespondingTasks)
                              + (IF BatchResponding THEN 1 ELSE 0)]_vars
    /\ [](\A t \in TaskIds :
             Count(tasks[t], "recordApiCall") = IF Responded(tasks[t]) THEN 1 ELSE 0)

\* Both calls a cross call makes sent their requests at the same time and
\* both got a response while the other was in flight or just answered: two
\* calls are counted.
C36_Witness ==
    /\ IsCrossCase(tasks["root"])
    /\ Responded(tasks["legFrom"])
    /\ Responded(tasks["legTo"])
    /\ tasks["legFrom"].sentAt = tasks["legTo"].sentAt
    /\ loadData.calls = 2

\* ---------------------------------------------------------- useCurrencyData

\* The calls of fetchData the hook makes: the one for the pair shown first
\* and the one for the pair the user changes to.
HookIds == {"prior", "next"}

\* The options startDate and endDate of the hook, as day numbers.
startDate == 2

endDate == 3

\* rates.filter((rate) => rate.date >= startDate && rate.date <= endDate)
filterRatesByDateRange(rates, start, end) ==
    SelectSeq(rates, LAMBDA rate : rate.date >= start /\ rate.date <= end)

\* A call of getCurrencyPairData has settled and the fetchData that awaits it
\* has not gone on yet.
Resumable(id) == tasks[id].pc = "done" /\ \A i \in DOMAIN job.settled : job.settled[i] # id

\* No fetchData waits to go on: a fetchData whose call has settled goes on
\* before anything else does.
NoneResumable == \A id \in HookIds : ~Resumable(id)

\* The calls of fetchData that await their call of getCurrencyPairData.
InFlight ==
    SelectSeq(<<"prior", "next">>, LAMBDA id : tasks[id].pc \notin {"idle", "done"})

\* SetData that drops the series of a pair the hook no longer shows.
SetData_CurrentOnly(j, tk) ==
    IF tk.status = "fulfilled" /\ j.view = <<tk.from, tk.to>>
    THEN [j EXCEPT !.data = filterRatesByDateRange(tk.result, startDate, endDate)]
    ELSE IF tk.status = "fulfilled" THEN j
    ELSE [j EXCEPT !.error = Some(tk.error)]

\* fetchData after the await: setData(filteredRates), or setError in the catch.
SetData(j, tk) ==
    IF tk.status = "fulfilled"
    THEN [j EXCEPT !.data = filterRatesByDateRange(tk.result, startDate, endDate)]
    ELSE [j EXCEPT !.error = Some(tk.error)]

\* The hook is rendered with another pair; the effect calls fetchData(),
\* unless the two currencies are the same, and fetchData runs up to its await
\* of getCurrencyPairData(from, to, false).
SelectPair(from, to) ==
    /\ job.op = "useCurrencyData"
    /\ job.view # <<from, to>>
    /\ NoneResumable
    /\ IF from = to
       THEN /\ job' = [job EXCEPT !.view = <<from, to>>]
            /\ UNCHANGED tasks
       ELSE \E id \in HookIds :
               /\ tasks[id].pc = "idle"
               /\ id = "next" => tasks["prior"].pc # "idle"
               /\ tasks' = [tasks EXCEPT ![id] = Enter(from, to, FALSE)]
               /\ job' = [job EXCEPT !.view = <<from, to>>, !.loading = TRUE,
                                     !.error = Null,
                                     !.superseded = @ \o InFlight]
    /\ UNCHANGED <<currencyData, metadata, stored, exchange_rates, now, today, lastReturned>>

\* fetchData goes on after its await: try, catch and finally.
FetchDataResumes(id) ==
    /\ job.op = "useCurrencyData"
    /\ Resumable(id)
    /\ job' = [SetData(job, tasks[id]) EXCEPT !.loading = FALSE, !.settled = @ \o <<id>>]
    /\ UNCHANGED <<currencyData, metadata, stored, exchange_rates, now, today, tasks,
                   lastReturned>>

\* Nothing but timers is pending: the clock advances to the first of them.
HookTimer ==
    LET waiting == {id \in HookIds : tasks[id].pc = "apiWait" /\ tasks[id].wakeAt > now}
    IN /\ waiting # {}
       /\ \A id \in HookIds : tasks[id].pc \in {"idle", "done", "apiWait"}
       /\ now' = tasks[CHOOSE id \in waiting :
                           \A other \in waiting : tasks[id].wakeAt <= tasks[other].wakeAt].wakeAt
       /\ UNCHANGED <<currencyData, metadata, stored, exchange_rates, today, tasks,
                      lastReturned, job>>

\* What a call of getCurrencyPairData awaits settles.
HookStep ==
    \/ NoneResumable /\ \E id \in HookIds : CacheGetDone(id)
    \/ NoneResumable /\ \E id \in HookIds, outcome \in BackendOutcomes :
                           BackendGetDone(id, outcome)
    \/ NoneResumable /\ \E id \in HookIds : AdoptPutDone(id)
    \/ NoneResumable /\ HookTimer
    \/ NoneResumable /\ \E id \in HookIds : TimerFire(id)
    \/ NoneResumable /\ \E id \in HookIds : \E out \in FetchOutcomes(tasks[id].from) :
                           ApiFetchDone(id, out)
    \/ NoneResumable /\ \E id \in HookIds : ApiPutDone(id)
    \/ NoneResumable /\ \E id \in HookIds, saved \in BOOLEAN : BackendPostDone(id, saved)

\* The pairs the user picks: two pairs with the base currency, and the base
\* currency against itself.
HookPairs == {<<"EUR", BASE_CURRENCY>>, <<"JPY", BASE_CURRENCY>>,
              <<BASE_CURRENCY, BASE_CURRENCY>>}

HookInit ==
    /\ currencyData \in CachedAtOpen
    /\ metadata = Null
    /\ stored \in StoredAtOpen
    /\ exchange_rates \in SeedTables
    /\ now = MinIntervalMs
    /\ today = 1
    /\ tasks = [id \in HookIds |-> IdleTask]
    /\ lastReturned = Null
    /\ job = [IdleJob EXCEPT !.op = "useCurrencyData"]

HookProgress ==
    \/ \E id \in HookIds : FetchDataResumes(id)
    \/ HookStep

HookNext ==
    \/ \E pair \in HookPairs : SelectPair(pair[1], pair[2])
    \/ HookProgress

\* The hook on the page, where whatever a call awaits settles in the end.
HookLiveSpec == HookInit /\ [][HookNext]_vars /\ WF_vars(HookProgress)

\* The calls of fetchData that are through and whose call of
\* getCurrencyPairData was fulfilled, in the order in which they went on.
FulfilledOf(settled) == SelectSeq(settled, LAMBDA id : tasks[id].status = "fulfilled")

\* What the hook shows of the series a call was fulfilled with.
Shown(id) == filterRatesByDateRange(tasks[id].result, startDate, endDate)

\* The user changed the pair while the resolution for the first pair was
\* pending, and both calls of fetchData are through.
BothThrough == job.superseded = <<"prior">> /\ Len(job.settled) = 2

\* C37 as stated: when the user changed the pair while the resolution for the
\* first pair was pending, then after both resolutions have settled the data
\* of the hook is the series of the resolution that settled last.
C37_Original ==
    (job.op = "useCurrencyData" /\ BothThrough) => job.data = Shown(job.settled[2])

\* C37: the call of fetchData for a new pair does not cancel the one in
\* flight: both resolutions settle and both calls go on after their await.
\* The data of the hook is always the series, within the date range, of the
\* resolution that was fulfilled last, be it the one for the pair no longer
\* shown; a resolution that is rejected sets the error and leaves the data.
C37_LastFulfilledWins ==
    /\ [](job.op = "useCurrencyData" =>
             job.data = IF FulfilledOf(job.settled) = <<>> THEN <<>>
                        ELSE Shown(FulfilledOf(job.settled)[Len(FulfilledOf(job.settled))]))
    /\ \A id \in HookIds :
          (tasks[id].pc # "idle") ~> (\E i \in DOMAIN job.settled : job.settled[i] = id)

\* The user changed from one pair to another while the resolution for the
\* first was pending; the resolution for the new pair settled first, the one
\* for the first pair last, and the hook shows the series of the first pair.
C37_Witness ==
    /\ job.op = "useCurrencyData"
    /\ job.superseded = <<"prior">>
    /\ job.settled = <<"next", "prior">>
    /\ job.view = <<tasks["next"].from, tasks["next"].to>>
    /\ tasks["prior"].from # tasks["next"].from
    /\ tasks["prior"].status = "fulfilled"
    /\ tasks["next"].status = "fulfilled"
    /\ job.data = Shown("prior")
    /\ job.data # <<>>
    /\ job.data # Shown("next")

====
